---- MODULE Spec2Model ----
(***************************************************************************)
(* Bookfix: the interactive engines (per-word choices, all-caps            *)
(* disposition, numbered-line editing), the non-interactive processors of  *)
(* the worker's pipeline, the section-marked configuration file and the    *)
(* main window that sequences them.                                        *)
(*                                                                         *)
(* Text is a sequence of one-character strings.  Offsets and spans are the *)
(* 0-based, half-open offsets of the Python code.  Every handler is an     *)
(* operator from a world record (all objects' fields) to the world after   *)
(* the handler has returned; the actions apply these operators to the      *)
(* variables.                                                              *)
(***************************************************************************)
EXTENDS Integers, Sequences, FiniteSets, TLC

VARIABLES
    ctx,               \* BookfixContext: text, choices, ignore_set, lowercase_set, processing_log
    choice_processor,  \* InteractiveChoiceProcessor fields
    caps_processor,    \* AllCapsProcessor fields
    data_file,         \* the lines of .data.txt
    debug_txt,         \* the replacement-audit log debug.txt: <<word, choice>> entries
    numbered_processor,\* NumberedLineProcessor fields
    window,            \* BookfixMainWindow fields and the widgets it drives
    shown,             \* the prompts presented so far in the current pass, in order
    call               \* the last engine handler, save routine, numbered-line operation or
                       \* roman_to_arabic call delivered: its argument and result, the state
                       \* an engine handler started from, and the choices delivered so far in
                       \* the current pass

vars == <<ctx, choice_processor, caps_processor, numbered_processor, data_file, debug_txt, window,
          shown, call>>

----------------------------------------------------------------------------
(* Bounds *)

MaxTextLen == 4        \* longest initial document of the choice engine
MaxLiveLen == 13       \* a replacement that would grow the text beyond this is not delivered
MaxStale == 2          \* choices delivered after the choice engine has logged completion
MaxRuns == 2           \* Start Processing is clicked at most this often
MaxFileLines == 3      \* longest configuration file drawn from FileLines

----------------------------------------------------------------------------
(* Characters and strings *)

None == <<"None">>     \* Python's None where a string is expected
NoSpan == <<-1, -1>>   \* Python's None where a span is expected

\* the letters of the model's alphabets, upper case and lower case
UpperLetters == <<"A", "B", "R", "I", "V", "X", "L", "C", "D", "M">>
LowerLetters == <<"a", "b", "r", "i", "v", "x", "l", "c", "d", "m">>

Lower(c) ==
    IF \E k \in 1..Len(UpperLetters) : UpperLetters[k] = c
    THEN LowerLetters[CHOOSE k \in 1..Len(UpperLetters) : UpperLetters[k] = c]
    ELSE c

IsUpper(c) == \E k \in 1..Len(UpperLetters) : UpperLetters[k] = c

\* LATIN CAPITAL LETTER I WITH DOT ABOVE, the one character whose lower() is two
\* characters: "i" and COMBINING DOT ABOVE
DottedI == "U+0130"
DotAbove == "U+0307"

\* \w of the re module: letters, digits and underscore
IsWordChar(c) ==
    c \notin {" ", ".", "\n", "&", "-", "+", ":", ";", "/", "\\", "(", "~", "#", "->", "\\1", "\\g<x>", DotAbove}

RECURSIVE LowerStr(_)
\* s.lower()
LowerStr(s) ==
    IF \A i \in 1..Len(s) : s[i] # DottedI
    THEN [i \in 1..Len(s) |-> Lower(s[i])]
    ELSE (IF Head(s) = DottedI THEN <<"i", DotAbove>> ELSE <<Lower(Head(s))>>)
             \o LowerStr(Tail(s))

Min(a, b) == IF a < b THEN a ELSE b
Max(a, b) == IF a > b THEN a ELSE b

\* t[s:e] with Python's clamping of the two offsets
Slice(t, s, e) ==
    LET s0 == Min(Max(s, 0), Len(t))
        e0 == Min(Max(e, 0), Len(t))
    IN  IF e0 <= s0 THEN <<>> ELSE SubSeq(t, s0 + 1, e0)

\* writes r over the text from s on instead of replacing the span
Overwrite(t, s, e, r) == Slice(t, 0, s) \o r \o Slice(t, s + Len(r), Len(t))

\* t[:s] + r + t[e:]
Splice(t, s, e, r) == Slice(t, 0, s) \o r \o Slice(t, e, Len(t))

\* pops the last element whatever i is
RemoveLast(q, i) == SubSeq(q, 1, Len(q) - 1)

\* list.pop(i) for a valid 0-based i
RemoveAt(q, i) == SubSeq(q, 1, i) \o SubSeq(q, i + 2, Len(q))

\* the regex assertion \b at offset p of t
AtBoundary(t, p) ==
    LET before == p > 0 /\ IsWordChar(t[p])
        after  == p < Len(t) /\ IsWordChar(t[p + 1])
    IN  before # after

\* the same match without the closing \b
WordAtOpen(t, word, i, ic) ==
    /\ i + Len(word) <= Len(t)
    /\ \A k \in 1..Len(word) :
          IF ic THEN Lower(t[i + k]) = Lower(word[k]) ELSE t[i + k] = word[k]
    /\ AtBoundary(t, i)

\* word matches at offset i of t between two \b, ignoring case when ic
WordAt(t, word, i, ic) ==
    /\ i + Len(word) <= Len(t)
    /\ \A k \in 1..Len(word) :
          IF ic THEN Lower(t[i + k]) = Lower(word[k]) ELSE t[i + k] = word[k]
    /\ AtBoundary(t, i)
    /\ AtBoundary(t, i + Len(word))

RECURSIVE ScanWord(_, _, _, _)
ScanWord(t, word, from, ic) ==
    IF from + Len(word) > Len(t) THEN <<>>
    ELSE IF WordAt(t, word, from, ic)
         THEN <<<<from, from + Len(word)>>>> \o ScanWord(t, word, from + Len(word), ic)
         ELSE ScanWord(t, word, from + 1, ic)

\* list(re.finditer(r'\b' + re.escape(word) + r'\b', t, re.IGNORECASE)) as spans
finditer_word(t, word) == ScanWord(t, word, 0, TRUE)

Digits == <<"0", "1", "2", "3", "4", "5", "6", "7", "8", "9">>
IsDigit(c) == \E k \in 1..Len(Digits) : Digits[k] = c

RECURSIVE str_int(_)
\* str(n) for n >= 0
str_int(n) == IF n < 10 THEN <<Digits[n + 1]>> ELSE Append(str_int(n \div 10), Digits[(n % 10) + 1])

RECURSIVE splitlines(_)
\* str.splitlines(): the lines without their line ends, no last empty line
splitlines(t) ==
    IF t = <<>> THEN <<>>
    ELSE IF \E i \in 1..Len(t) : t[i] = "\n"
         THEN LET n == CHOOSE i \in 1..Len(t) : t[i] = "\n" /\ \A j \in 1..(i - 1) : t[j] # "\n"
              IN  <<SubSeq(t, 1, n - 1)>> \o splitlines(SubSeq(t, n + 1, Len(t)))
         ELSE <<t>>

RECURSIVE join_lines(_)
\* "\n".join(lines)
join_lines(lines) ==
    IF lines = <<>> THEN <<>>
    ELSE IF Len(lines) = 1 THEN lines[1]
    ELSE lines[1] \o <<"\n">> \o join_lines(Tail(lines))

----------------------------------------------------------------------------
(* BookfixContext.log_change *)

log_change(c, step) == [c EXCEPT !.processing_log = Append(@, step)]

----------------------------------------------------------------------------
(* BookfixMainWindow: the callbacks the engines are given by setup_callbacks *)

\* display_choices: one button per option, in the configured order
display_choices(w, word, options) ==
    [w EXCEPT !.win.current_item_label = word, !.win.choice_buttons = options,
              !.win.buttons = "choices"]

\* display_numbered_line: the line in an editor with Apply & Next and Skip
display_numbered_line(w, line_no, line_content, spans) ==
    [w EXCEPT !.win.current_item_label = <<"L">> \o str_int(line_no + 1),
              !.win.buttons = "numbered"]

\* update_navigation
update_navigation(w, current, total) == [w EXCEPT !.win.prev_button_enabled = current > 1]

\* update_text_display: the widget shows the text and the context is kept in sync
update_text_display(w, text) == [w EXCEPT !.ctx.text = text]

----------------------------------------------------------------------------
(* InteractiveChoiceProcessor *)

reset_state(cp) ==
    [cp EXCEPT !.current_word = None, !.current_match = 0, !.matches = <<>>,
               !.processed_words = 0, !.total_words = 0, !.current_text = <<>>]

\* _apply_highlighting: the range is checked against the text before it is highlighted
apply_highlighting(w, start, end, word, text) ==
    IF start < 0 \/ end > Len(text) \/ start >= end
    THEN w
    ELSE [w EXCEPT !.win.highlight = <<start, end>>]

\* the entry of shown: the highlighted span and the status "Replacing item: k/of"
highlight_current_match(w) ==
    IF Len(w.cp.matches) # 0 /\ w.cp.current_match < Len(w.cp.matches)
    THEN LET m == w.cp.matches[w.cp.current_match + 1]
             w1 == [w EXCEPT !.shown = Append(@, [item |-> w.cp.current_word, span |-> m,
                                                  of |-> Len(w.cp.matches)])]
         IN  apply_highlighting(w1, m[1], m[2], w.cp.current_word, w.cp.current_text)
    ELSE w

\* restarts from the first match of the recomputed list
first_index(found, end) == IF found = <<>> THEN Len(found) ELSE 0

\* the index of the first match that starts at or after end, len(found) if none
next_index_after(found, end) ==
    IF \E i \in 1..Len(found) : found[i][1] >= end
    THEN (CHOOSE i \in 1..Len(found) :
             /\ found[i][1] >= end
             /\ \A j \in 1..(i - 1) : found[j][1] < end) - 1
    ELSE Len(found)

RECURSIVE start_word_processing(_)
RECURSIVE finish_current_word(_)

start_word_processing(w) ==
    IF w.cp.processed_words < w.cp.total_words
    THEN LET entry == w.ctx.choices[w.cp.processed_words + 1]
             found == finditer_word(w.cp.current_text, entry.word)
             w1    == [w EXCEPT !.cp.current_word = entry.word,
                                 !.cp.current_match = 0,
                                 !.cp.matches = found]
         IN  IF Len(found) # 0
             THEN display_choices(highlight_current_match(w1), entry.word, entry.options)
             ELSE finish_current_word(w1)
    ELSE w

finish_current_word(w) ==
    LET w1 == [w EXCEPT !.cp.processed_words = @ + 1]
    IN  IF w1.cp.total_words = 0
        THEN \* progress = int(processed_words / total_words * 100): ZeroDivisionError
             [w1 EXCEPT !.raised = TRUE, !.ret = "raised"]
        ELSE IF w1.cp.processed_words < w1.cp.total_words
             THEN LET started(w2) == IF w2.raised THEN w2 ELSE [w2 EXCEPT !.ret = "True"]
                  IN  started(start_word_processing(w1))
             ELSE [w1 EXCEPT !.ctx = log_change(@, "interactive_choices"), !.ret = "False"]

process_choices(w) ==
    LET w1 == [w EXCEPT !.cp = [reset_state(@) EXCEPT !.current_text = w.ctx.text,
                                                       !.total_words = Len(w.ctx.choices)],
                        !.ret = "ctx"]
    IN  IF w1.cp.total_words = 0
        THEN w1
        ELSE [start_word_processing(w1) EXCEPT !.ret = "ctx"]

handle_choice(w, choice) ==
    IF Len(w.cp.matches) = 0 \/ w.cp.current_match >= Len(w.cp.matches)
    THEN finish_current_word(w)
    ELSE LET m            == w.cp.matches[w.cp.current_match + 1]
             start        == m[1]
             end          == m[2]
             matched_text == Slice(w.cp.current_text, start, end)
         IN  IF LowerStr(choice) = LowerStr(matched_text)
             THEN LET w1 == [w EXCEPT !.cp.matches = RemoveAt(@, w.cp.current_match)]
                  IN  IF w1.cp.current_match < Len(w1.cp.matches)
                      THEN [highlight_current_match(w1) EXCEPT !.ret = "True"]
                      ELSE finish_current_word(w1)
             ELSE LET newtext == Splice(w.cp.current_text, start, end, choice)
                      found   == finditer_word(newtext, w.cp.current_word)
                      w1 == [update_text_display(w, newtext) EXCEPT
                                !.cp.current_text = newtext,
                                !.debug = Append(@, <<w.cp.current_word, choice>>),
                                !.cp.matches = found,
                                !.cp.current_match = next_index_after(found, end)]
                  IN  IF w1.cp.current_match < Len(w1.cp.matches)
                      THEN [highlight_current_match(w1) EXCEPT !.ret = "True"]
                      ELSE finish_current_word(w1)

----------------------------------------------------------------------------
(* Whole-word, case-sensitive substitution: re.sub(r'\bword\b', repl, t) *)

RECURSIVE ReplaceSpans(_, _, _, _)
\* the text from offset from on, with every span of spans (in order) replaced by repl
ReplaceSpans(t, spans, from, repl) ==
    IF spans = <<>> THEN Slice(t, from, Len(t))
    ELSE Slice(t, from, Head(spans)[1]) \o repl
            \o ReplaceSpans(t, Tail(spans), Head(spans)[2], repl)

\* re.sub with count=1
sub_first(t, word, repl) ==
    LET found == ScanWord(t, word, 0, FALSE)
    IN  ReplaceSpans(t, IF found = <<>> THEN <<>> ELSE <<Head(found)>>, 0, repl)

sub_word(t, word, repl) == ReplaceSpans(t, ScanWord(t, word, 0, FALSE), 0, repl)

RECURSIVE bulk_lowercase(_, _)
\* for word in order: text = re.sub(r'\bword\b', word.lower(), text)
bulk_lowercase(t, order) ==
    IF order = <<>> THEN t
    ELSE bulk_lowercase(sub_word(t, Head(order), LowerStr(Head(order))), Tail(order))

\* the orders in which a Python set can be iterated
Orders(S) ==
    {q \in [1..Cardinality(S) -> S] : \A i, j \in 1..Cardinality(S) : i # j => q[i] # q[j]}

----------------------------------------------------------------------------
(* The all-caps detection regex \b[A-Z](?:[A-Z ]*[A-Z])\b *)

\* the ends e at which the regex can stop when it starts at offset i
CapsEnds(t, i) ==
    {e \in (i + 2)..Len(t) :
        /\ AtBoundary(t, i)
        /\ IsUpper(t[i + 1])
        /\ \A k \in (i + 2)..e : IsUpper(t[k]) \/ t[k] = " "
        /\ IsUpper(t[e])
        /\ AtBoundary(t, e)}

SetMax(S) == CHOOSE x \in S : \A y \in S : y <= x

RECURSIVE ScanCaps(_, _)
ScanCaps(t, from) ==
    IF from + 2 > Len(t) THEN <<>>
    ELSE IF CapsEnds(t, from) # {}
         THEN LET e == SetMax(CapsEnds(t, from))   \* [A-Z ]* is greedy
              IN  <<[text |-> Slice(t, from, e), span |-> <<from, e>>]>> \o ScanCaps(t, e)
         ELSE ScanCaps(t, from + 1)

\* list(sequence_pattern.finditer(t)): group(0) and span() of each match
finditer_caps(t) == ScanCaps(t, 0)

----------------------------------------------------------------------------
(* datafile.py: the configuration file .data.txt                           *)
(* The file content is a sequence of tokens: characters, "\n", and the     *)
(* text of a section marker as one token.                                  *)

CHOICE_SECTION_MARKER == "# CHOICE"
REPLACE_SECTION_MARKER == "# REPLACE"
PERIODS_SECTION_MARKER == "# PERIODS"
IGNORE_SECTION_MARKER == "# CAP_IGNORE"
LOWERCASE_SECTION_MARKER == "# UPPER_TO_LOWER"
ROMAN_IGNORE_SECTION_MARKER == "# ROMAN_IGNORE"
DEFAULT_DIR_SECTION_MARKER == "# DEFAULT_FILE_DIR"

ALL_SECTION_MARKERS ==
    {CHOICE_SECTION_MARKER, REPLACE_SECTION_MARKER, PERIODS_SECTION_MARKER,
     IGNORE_SECTION_MARKER, LOWERCASE_SECTION_MARKER, ROMAN_IGNORE_SECTION_MARKER,
     DEFAULT_DIR_SECTION_MARKER}

BOM == "BOM"                          \* U+FEFF
IsSpace(c) == c \in {" ", "\n"}       \* what str.strip() removes
IsZeroWidth(c) == c \in {BOM}         \* what lstrip of the zero-width characters removes

RECURSIVE lstrip(_, _)
lstrip(line, zw) ==
    IF line # <<>> /\ (IF zw THEN IsZeroWidth(Head(line)) ELSE IsSpace(Head(line)))
    THEN lstrip(Tail(line), zw) ELSE line

RECURSIVE rstrip(_)
rstrip(line) ==
    IF line # <<>> /\ IsSpace(line[Len(line)])
    THEN rstrip(SubSeq(line, 1, Len(line) - 1)) ELSE line

strip(line) == rstrip(lstrip(line, FALSE))

\* line.strip() followed by the lstrip of zero-width characters
strip_zw(line) == lstrip(strip(line), TRUE)

IsMarkerLine(stripped) == Len(stripped) = 1 /\ stripped[1] \in ALL_SECTION_MARKERS

RECURSIVE readlines(_)
\* f.readlines(): each line keeps its "\n"; a last line may have none
readlines(content) ==
    IF content = <<>> THEN <<>>
    ELSE IF \E i \in 1..Len(content) : content[i] = "\n"
         THEN LET n == CHOOSE i \in 1..Len(content) :
                          content[i] = "\n" /\ \A j \in 1..(i - 1) : content[j] # "\n"
              IN  <<SubSeq(content, 1, n)>> \o readlines(SubSeq(content, n + 1, Len(content)))
         ELSE <<content>>

RECURSIVE writelines(_)
writelines(lines) == IF lines = <<>> THEN <<>> ELSE Head(lines) \o writelines(Tail(lines))

\* the name the two save routines give a marker; ROMAN_IGNORE has none
SaveSectionName(marker) ==
    CASE marker = CHOICE_SECTION_MARKER -> "choice"
      [] marker = REPLACE_SECTION_MARKER -> "replace"
      [] marker = PERIODS_SECTION_MARKER -> "periods"
      [] marker = IGNORE_SECTION_MARKER -> "ignore"
      [] marker = LOWERCASE_SECTION_MARKER -> "lowercase"
      [] marker = DEFAULT_DIR_SECTION_MARKER -> "default_dir"
      [] OTHER -> "None"

SectionNames == {"choice", "replace", "periods", "ignore", "lowercase", "default_dir"}

RECURSIVE section_scan(_, _, _, _, _, _)
\* "Find section boundaries": section_indices after the loop and the statement that follows it.
\* zw: whether the scan strips zero-width characters before the comparison
section_scan(lines, i, name, start, indices, zw) ==
    LET closed == IF name # "None" /\ start # -1
                  THEN [indices EXCEPT ![name] = <<start, i>>]
                  ELSE indices
    IN  IF i >= Len(lines) THEN closed
        ELSE LET stripped == IF zw THEN strip_zw(lines[i + 1]) ELSE strip(lines[i + 1])
             IN  IF IsMarkerLine(stripped)
                 THEN section_scan(lines, i + 1, SaveSectionName(stripped[1]), i + 1, closed, zw)
                 ELSE section_scan(lines, i + 1, name, start, indices, zw)

section_indices(lines, zw) ==
    section_scan(lines, 0, "None", -1, [n \in SectionNames |-> NoSpan], zw)

Code(c) ==
    CASE c = " " -> 32
      [] c = "." -> 46
      [] c = "A" -> 65
      [] c = "B" -> 66
      [] c = "R" -> 82
      [] c = "a" -> 97
      [] c = "b" -> 98
      [] c = "r" -> 114
      [] OTHER -> 200

RECURSIVE StrLess(_, _)
\* a < b for Python strings
StrLess(a, b) ==
    IF b = <<>> THEN FALSE
    ELSE IF a = <<>> THEN TRUE
    ELSE IF Code(Head(a)) # Code(Head(b)) THEN Code(Head(a)) < Code(Head(b))
    ELSE StrLess(Tail(a), Tail(b))

RECURSIVE sorted(_)
sorted(S) ==
    IF S = {} THEN <<>>
    ELSE LET m == CHOOSE x \in S : \A y \in S \ {x} : StrLess(x, y)
         IN  <<m>> \o sorted(S \ {m})

\* [seq + '\n' for seq in sorted(list(S))]
content_lines(S) == LET q == sorted(S) IN [i \in 1..Len(q) |-> Append(q[i], "\n")]

\* "Add sections if they didn't exist": a blank line unless the file ends with one
append_section(new_lines, marker, content) ==
    (IF new_lines # <<>> /\ strip(new_lines[Len(new_lines)]) # <<>>
     THEN Append(new_lines, <<"\n">>) ELSE new_lines)
        \o <<(<<marker, "\n">>)>> \o content

RECURSIVE rewrite_caps(_, _, _, _, _, _, _)
\* "Construct new file content" of save_caps_data_file: <<new_lines, ignore handled, lowercase handled>>
rewrite_caps(lines, i, indices, ign, low, new_lines, handled) ==
    IF i >= Len(lines) THEN <<new_lines, handled>>
    ELSE LET line == lines[i + 1]
             stripped == strip(line)
         IN  IF stripped = <<IGNORE_SECTION_MARKER>> /\ indices["ignore"] # NoSpan
             THEN rewrite_caps(lines, indices["ignore"][2], indices, ign, low,
                               Append(new_lines, line) \o ign, handled \cup {"ignore"})
             ELSE IF stripped = <<LOWERCASE_SECTION_MARKER>> /\ indices["lowercase"] # NoSpan
             THEN rewrite_caps(lines, indices["lowercase"][2], indices, ign, low,
                               Append(new_lines, line) \o low, handled \cup {"lowercase"})
             ELSE rewrite_caps(lines, i + 1, indices, ign, low, Append(new_lines, line), handled)

\* the file content after save_caps_data_file(ignore_set, lowercase_set)
save_caps_data_file(content, ignore_set, lowercase_set) ==
    LET original_lines == readlines(content)
        indices == section_indices(original_lines, TRUE)
        ign == content_lines(ignore_set)
        low == content_lines(lowercase_set)
        r   == rewrite_caps(original_lines, 0, indices, ign, low, <<>>, {})
        n1  == IF "ignore" \notin r[2] /\ ignore_set # {}
               THEN append_section(r[1], IGNORE_SECTION_MARKER, ign) ELSE r[1]
        n2  == IF "lowercase" \notin r[2] /\ lowercase_set # {}
               THEN append_section(n1, LOWERCASE_SECTION_MARKER, low) ELSE n1
    IN  writelines(n2)

RECURSIVE rewrite_default_dir(_, _, _, _, _, _)
rewrite_default_dir(lines, i, indices, dir, new_lines, handled) ==
    IF i >= Len(lines) THEN <<new_lines, handled>>
    ELSE LET line == lines[i + 1]
         IN  IF strip(line) = <<DEFAULT_DIR_SECTION_MARKER>> /\ indices["default_dir"] # NoSpan
             THEN rewrite_default_dir(lines, indices["default_dir"][2], indices, dir,
                                      Append(new_lines, line) \o dir, TRUE)
             ELSE rewrite_default_dir(lines, i + 1, indices, dir, Append(new_lines, line), handled)

\* the file content after save_default_directory_to_data_file(directory_path)
save_default_directory_to_data_file(content, directory_path) ==
    LET original_lines == readlines(content)
        indices == section_indices(original_lines, FALSE)
        dir == <<Append(directory_path, "\n")>>
        r   == rewrite_default_dir(original_lines, 0, indices, dir, <<>>, FALSE)
        n1  == IF ~r[2] THEN append_section(r[1], DEFAULT_DIR_SECTION_MARKER, dir) ELSE r[1]
    IN  writelines(n1)

----------------------------------------------------------------------------
(* load_data_file *)

RECURSIVE split(_, _)
\* str.split(sep) for a one-token separator
split(line, sep) ==
    IF \E i \in 1..Len(line) : line[i] = sep
    THEN LET n == CHOOSE i \in 1..Len(line) :
                     line[i] = sep /\ \A j \in 1..(i - 1) : line[j] # sep
         IN  <<SubSeq(line, 1, n - 1)>> \o split(SubSeq(line, n + 1, Len(line)), sep)
    ELSE <<line>>

\* d[key] = value on an insertion-ordered dict kept as a sequence of [word, options]
dict_set(d, key, value) ==
    IF \E i \in 1..Len(d) : d[i].word = key
    THEN [i \in 1..Len(d) |-> IF d[i].word = key THEN [word |-> key, options |-> value] ELSE d[i]]
    ELSE Append(d, [word |-> key, options |-> value])

LoadSectionName(marker) ==
    CASE marker = CHOICE_SECTION_MARKER -> "choice"
      [] marker = REPLACE_SECTION_MARKER -> "replace"
      [] marker = PERIODS_SECTION_MARKER -> "periods"
      [] marker = IGNORE_SECTION_MARKER -> "ignore"
      [] marker = LOWERCASE_SECTION_MARKER -> "lowercase"
      [] marker = ROMAN_IGNORE_SECTION_MARKER -> "roman_ignore"
      [] OTHER -> "default_dir"

\* the directories for which Path(...).is_dir() holds
ExistingDirs == {<<"d">>}
\* the lines for which Path(stripped_line).expanduser() raises (a ~user that has no home)
RaisingDirs == {<<"~">>}

UpperChar(c) ==
    IF \E k \in 1..Len(LowerLetters) : LowerLetters[k] = c
    THEN UpperLetters[CHOOSE k \in 1..Len(LowerLetters) : LowerLetters[k] = c]
    ELSE c

UpperStr(s) == [i \in 1..Len(s) |-> UpperChar(s[i])]

\* a loader that takes a line with more than one '->' by its first two parts
load_first_parts(c, section, stripped) ==
    CASE section = "choice" ->
            LET parts == split(stripped, "->")
            IN  IF Len(parts) >= 2
                THEN LET opts == split(parts[2], ";")
                     IN  [c EXCEPT !.choices =
                            dict_set(@, strip(parts[1]), [i \in 1..Len(opts) |-> strip(opts[i])])]
                ELSE c
      [] section = "replace" ->
            LET parts == split(stripped, "->")
            IN  IF Len(parts) >= 2
                THEN [c EXCEPT !.replacements = dict_set(@, strip(parts[1]), strip(parts[2]))]
                ELSE c
      [] section = "periods" -> [c EXCEPT !.periods = @ \cup {stripped}]
      [] section = "ignore" -> [c EXCEPT !.ignore_set = @ \cup {stripped}]
      [] section = "lowercase" -> [c EXCEPT !.lowercase_set = @ \cup {stripped}]
      [] section = "roman_ignore" -> [c EXCEPT !.roman_ignore_set = @ \cup {UpperStr(stripped)}]
      [] OTHER -> c

\* the effect of one content line of section on the context
load_content_line(c, section, stripped) ==
    CASE section = "choice" ->
            LET parts == split(stripped, "->")
            IN  IF Len(parts) = 2
                THEN LET opts == split(parts[2], ";")
                     IN  [c EXCEPT !.choices =
                            dict_set(@, strip(parts[1]), [i \in 1..Len(opts) |-> strip(opts[i])])]
                ELSE c
      [] section = "replace" ->
            LET parts == split(stripped, "->")
            IN  IF Len(parts) = 2
                THEN [c EXCEPT !.replacements = dict_set(@, strip(parts[1]), strip(parts[2]))]
                ELSE c
      [] section = "periods" -> [c EXCEPT !.periods = @ \cup {stripped}]
      [] section = "ignore" -> [c EXCEPT !.ignore_set = @ \cup {stripped}]
      [] section = "lowercase" -> [c EXCEPT !.lowercase_set = @ \cup {stripped}]
      [] section = "roman_ignore" -> [c EXCEPT !.roman_ignore_set = @ \cup {UpperStr(stripped)}]
      [] OTHER ->
            IF c.default_file_directory = None /\ stripped \in ExistingDirs
            THEN [c EXCEPT !.default_file_directory = stripped]
            ELSE c

RECURSIVE load_lines(_, _, _, _)
\* the parsing loop; an exception raised by a line ends it in the except clause, which
\* empties the fields it names
load_lines(c, lines, i, section) ==
    IF i >= Len(lines) THEN c
    ELSE LET stripped == strip_zw(lines[i + 1])
         IN  IF IsMarkerLine(stripped)
             THEN load_lines(c, lines, i + 1, LoadSectionName(stripped[1]))
             ELSE IF section # "None" /\ stripped # <<>> /\ Head(stripped) # "#"
                  THEN IF /\ section = "default_dir"
                          /\ c.default_file_directory = None
                          /\ stripped \in RaisingDirs
                       THEN [c EXCEPT !.choices = <<>>, !.replacements = <<>>, !.periods = {},
                                      !.ignore_set = {}, !.lowercase_set = {},
                                      !.default_file_directory = None]
                       ELSE load_lines(load_content_line(c, section, stripped),
                                       lines, i + 1, section)
                  ELSE load_lines(c, lines, i + 1, section)

\* load_data_file(ctx) on the file with the given content; a missing file and a file that
\* cannot be opened or decoded leave what an empty file leaves
load_data_file(c, content) ==
    load_lines([c EXCEPT !.choices = <<>>, !.replacements = <<>>, !.periods = {},
                         !.ignore_set = {}, !.lowercase_set = {}, !.roman_ignore_set = {},
                         !.default_file_directory = None],
               readlines(content), 0, "None")

\* BookfixContext()
BookfixContext ==
    [text |-> <<>>, filepath |-> None, choices |-> <<>>, replacements |-> <<>>,
     periods |-> {}, ignore_set |-> {}, lowercase_set |-> {}, roman_ignore_set |-> {},
     default_file_directory |-> None, processing_log |-> <<>>]

----------------------------------------------------------------------------
(* AllCapsProcessor *)

CapsChoices == <<"Yes (lowercase)", "No (keep uppercase)", "Add to Ignore", "Auto Lowercase">>

\* AllCapsProcessor()
NewCapsProcessor ==
    [current_caps_sequence |-> None, current_caps_span |-> NoSpan,
     all_caps_matches_original |-> <<>>, decided_sequences_text |-> {},
     lowercased_original_spans |-> {}, current_match_index |-> 0, current_text |-> <<>>]

\* display_caps_choices: the four disposition buttons
display_caps_choices(w, sequence, options) ==
    [w EXCEPT !.win.current_item_label = sequence, !.win.choice_buttons = options,
              !.win.buttons = "caps",
              !.shown = Append(@, [item |-> sequence, span |-> w.caps.current_caps_span])]

\* _apply_highlighting of the caps processor: checked against the widget's text
apply_caps_highlighting(w, start, end) ==
    IF start < 0 \/ end > Len(w.ctx.text) \/ start >= end
    THEN w
    ELSE [w EXCEPT !.win.highlight = <<start, end>>]

\* skips the ignored sequences only
IgnoredOnly(w, i) == w.caps.all_caps_matches_original[i + 1].text \in w.ctx.ignore_set

\* skips the decided sequences only
DecidedOnly(w, i) ==
    w.caps.all_caps_matches_original[i + 1].text \in w.caps.decided_sequences_text

\* the sequence at index i needs no prompt
CapsSkipped(w, i) ==
    LET seq_text == w.caps.all_caps_matches_original[i + 1].text
    IN  seq_text \in w.ctx.ignore_set \/ seq_text \in w.caps.decided_sequences_text

RECURSIVE process_next_sequence(_)
process_next_sequence(w) ==
    IF w.caps.current_match_index < Len(w.caps.all_caps_matches_original)
    THEN IF CapsSkipped(w, w.caps.current_match_index)
         THEN process_next_sequence([w EXCEPT !.caps.current_match_index = @ + 1])
         ELSE LET match == w.caps.all_caps_matches_original[w.caps.current_match_index + 1]
                  w1 == [w EXCEPT !.caps.current_caps_sequence = match.text,
                                  !.caps.current_caps_span = match.span]
              IN  display_caps_choices(
                      apply_caps_highlighting(w1, match.span[1], match.span[2]),
                      match.text, CapsChoices)
    ELSE w

\* order: the order in which this run iterates ctx.lowercase_set
process_all_caps_sequences(w, order) ==
    LET original_for_detection == w.ctx.text
        working_text == bulk_lowercase(original_for_detection, order)
        w1 == [w EXCEPT !.caps.current_text = w.ctx.text,
                        !.caps.all_caps_matches_original = finditer_caps(original_for_detection),
                        !.caps.decided_sequences_text = {},
                        !.caps.lowercased_original_spans = {},
                        !.caps.current_match_index = 0]
    IN  [process_next_sequence(update_text_display(w1, working_text)) EXCEPT !.ret = "ctx"]

\* _save_caps_data_file
save_caps(w) ==
    [w EXCEPT !.file = save_caps_data_file(@, w.ctx.ignore_set, w.ctx.lowercase_set)]

\* "Find the original span we're working on": the first span of seq that is not recorded yet
original_span_of(caps, seq) ==
    LET ms == caps.all_caps_matches_original
        C  == {i \in 1..Len(ms) : ms[i].text = seq /\ ms[i].span \notin caps.lowercased_original_spans}
    IN  IF C = {} THEN NoSpan ELSE ms[CHOOSE i \in C : \A j \in C : i <= j].span

\* "Mark all original spans for this seq as done"
SpansOf(caps, seq) ==
    {caps.all_caps_matches_original[i].span :
        i \in {j \in 1..Len(caps.all_caps_matches_original) :
                  caps.all_caps_matches_original[j].text = seq}}

\* "Move to next sequence" and the result of handle_caps_choice
caps_advance(w) ==
    LET result(w1) ==
            [w1 EXCEPT !.ret =
                IF w1.caps.current_match_index < Len(w1.caps.all_caps_matches_original)
                THEN "True" ELSE "False"]
    IN  result(process_next_sequence([w EXCEPT !.caps.current_match_index = @ + 1]))

\* order: the order in which this call iterates ctx.lowercase_set (read by 'Auto Lowercase' only)
handle_caps_choice(w, choice, order) ==
    LET seq == w.caps.current_caps_sequence
    IN  IF seq = None \/ seq = <<>>
        THEN [w EXCEPT !.ret = "False"]
        ELSE
        LET start_pos == w.caps.current_caps_span[1]
            end_pos   == w.caps.current_caps_span[2]
            original_span == original_span_of(w.caps, seq)
        IN  CASE choice \in {"y", "yes", "0"} ->
                    LET bulk(w2) == update_text_display(w2, sub_word(w2.ctx.text, seq, LowerStr(seq)))
                    IN  caps_advance(bulk(
                            [update_text_display(
                                 w, Splice(w.ctx.text, start_pos, end_pos, LowerStr(seq)))
                                EXCEPT
                                !.caps.lowercased_original_spans =
                                    IF original_span # NoSpan THEN @ \cup {original_span} ELSE @,
                                !.caps.decided_sequences_text = @ \cup {seq}]))
              [] choice \in {"n", "no", "1"} ->
                    caps_advance([w EXCEPT !.caps.decided_sequences_text = @ \cup {seq}])
              [] choice \in {"a", "add", "2"} ->
                    LET w1 == save_caps([w EXCEPT !.ctx.ignore_set = @ \cup {seq}])
                    IN  caps_advance([w1 EXCEPT !.caps.decided_sequences_text = @ \cup {seq}])
              [] choice \in {"i", "auto", "3"} ->
                    LET lowered(w1) == update_text_display(w1, bulk_lowercase(w1.ctx.text, order))
                    IN  caps_advance(
                            [lowered(save_caps([w EXCEPT !.ctx.lowercase_set = @ \cup {seq}]))
                                EXCEPT
                                !.caps.lowercased_original_spans = @ \cup SpansOf(w.caps, seq),
                                !.caps.decided_sequences_text = @ \cup {seq}])
              [] OTHER -> [w EXCEPT !.ret = "True"]

----------------------------------------------------------------------------
(* NumberedLineProcessor *)

\* NumberedLineProcessor(); numbered_edits: the dict as its set of items
NewNumberedProcessor ==
    [numbered_lines |-> <<>>, current_numbered_idx |-> 0, numbered_edits |-> {}]

RECURSIVE finditer_two_digits(_, _)
\* the spans of \d{2,} in line, from offset from on
finditer_two_digits(line, from) ==
    LET S == {i \in from..(Len(line) - 1) : IsDigit(line[i + 1])}
    IN  IF S = {} THEN <<>>
        ELSE LET s == CHOOSE i \in S : \A j \in S : i <= j
                 e == CHOOSE k \in (s + 1)..Len(line) :
                          /\ \A j \in (s + 1)..k : IsDigit(line[j])
                          /\ k = Len(line) \/ ~IsDigit(line[k + 1])
             IN  (IF e - s >= 2 THEN <<<<s, e>>>> ELSE <<>>) \o finditer_two_digits(line, e)

RECURSIVE finditer_digits(_, _)
\* the spans of \d{3,} in line, from offset from on
finditer_digits(line, from) ==
    LET S == {i \in from..(Len(line) - 1) : IsDigit(line[i + 1])}
    IN  IF S = {} THEN <<>>
        ELSE LET s == CHOOSE i \in S : \A j \in S : i <= j
                 e == CHOOSE k \in (s + 1)..Len(line) :
                          /\ \A j \in (s + 1)..k : IsDigit(line[j])
                          /\ k = Len(line) \/ ~IsDigit(line[k + 1])
             IN  (IF e - s >= 3 THEN <<<<s, e>>>> ELSE <<>>) \o finditer_digits(line, e)

RECURSIVE numbered_from(_, _)
\* the entries of find_numbered_lines for lines[idx + 1 ..]
numbered_from(lines, idx) ==
    IF idx >= Len(lines) THEN <<>>
    ELSE LET spans == finditer_digits(lines[idx + 1], 0)
         IN  (IF spans # <<>>
              THEN <<[lineno |-> idx, line |-> lines[idx + 1], spans |-> spans]>>
              ELSE <<>>) \o numbered_from(lines, idx + 1)

find_numbered_lines(text) == numbered_from(splitlines(text), 0)

\* _show_current_line
show_current_line(w) ==
    IF w.num.current_numbered_idx < Len(w.num.numbered_lines)
    THEN LET entry == w.num.numbered_lines[w.num.current_numbered_idx + 1]
         IN  update_navigation(
                 display_numbered_line(w, entry.lineno, entry.line, entry.spans),
                 w.num.current_numbered_idx + 1, Len(w.num.numbered_lines))
    ELSE w

\* NumberedLineProcessor.start_numbered_line_edit
numbered_start(w) ==
    LET w1 == [w EXCEPT !.num = [numbered_lines |-> find_numbered_lines(w.ctx.text),
                                 current_numbered_idx |-> 0, numbered_edits |-> {}]]
    IN  IF w1.num.numbered_lines = <<>>
        THEN [w1 EXCEPT !.ret = "False"]
        ELSE [show_current_line(w1) EXCEPT !.ret = "True"]

\* _finish_editing: the completion callback does nothing
finish_editing(w) == [w EXCEPT !.ret = "False"]

\* go_next that compares the index with the length instead of the last index
go_next_to_length(w) ==
    IF w.num.current_numbered_idx < Len(w.num.numbered_lines)
    THEN [show_current_line([w EXCEPT !.num.current_numbered_idx = @ + 1]) EXCEPT !.ret = "True"]
    ELSE finish_editing(w)

go_next(w) ==
    IF w.num.current_numbered_idx < Len(w.num.numbered_lines) - 1
    THEN [show_current_line([w EXCEPT !.num.current_numbered_idx = @ + 1]) EXCEPT !.ret = "True"]
    ELSE finish_editing(w)

\* go_previous that drops the edit of the line it returns to
go_previous_dropping(w) ==
    IF w.num.current_numbered_idx > 0
    THEN [w EXCEPT !.num.current_numbered_idx = @ - 1,
                   !.num.numbered_edits =
                       {e \in @ : e.lineno #
                                      w.num.numbered_lines[w.num.current_numbered_idx].lineno},
                   !.ret = "True"]
    ELSE [w EXCEPT !.ret = "True"]

go_previous(w) ==
    [(IF w.num.current_numbered_idx > 0
      THEN show_current_line([w EXCEPT !.num.current_numbered_idx = @ - 1])
      ELSE w) EXCEPT !.ret = "True"]

\* self.numbered_edits[lineno] = text
store_edit(edits, lineno, text) ==
    {e \in edits : e.lineno # lineno} \cup {[lineno |-> lineno, text |-> text]}

save_and_next(w, edited_text) ==
    go_next(
        IF w.num.current_numbered_idx < Len(w.num.numbered_lines)
        THEN LET entry == w.num.numbered_lines[w.num.current_numbered_idx + 1]
             IN  IF strip(edited_text) # strip(entry.line)
                 THEN [w EXCEPT !.num.numbered_edits =
                                    store_edit(@, entry.lineno, strip(edited_text))]
                 ELSE w
        ELSE w)

\* lines[lineno] = replacement for every item of the dict with lineno < len(lines)
edited_lines(lines, edits) ==
    [i \in 1..Len(lines) |->
        IF \E e \in edits : e.lineno = i - 1
        THEN (CHOOSE e \in edits : e.lineno = i - 1).text
        ELSE lines[i]]

apply_edits(w) ==
    IF w.num.numbered_edits = {} THEN w
    ELSE [w EXCEPT !.ctx = log_change(
                               [@ EXCEPT !.text = join_lines(edited_lines(splitlines(@),
                                                                          w.num.numbered_edits))],
                               "numbered_line_edit")]

----------------------------------------------------------------------------
(* BookfixMainWindow and ProcessingThread *)

InteractiveStepOrder == <<"interactive_choices", "all_caps_processing", "numbered_line_edit">>

\* BookfixMainWindow(): the widgets' state after init_ui
NewWindow(checked) ==
    [start_button_enabled |-> TRUE, save_button_enabled |-> FALSE,
     panel_visible |-> FALSE, progress_visible |-> FALSE,
     current_interactive_step |-> "None", pending_interactive_steps |-> <<>>,
     buttons |-> "none", choice_buttons |-> <<>>, current_item_label |-> <<>>,
     highlight |-> NoSpan, prev_button_enabled |-> FALSE,
     checkboxes |-> checked,
     threads |-> <<>>,             \* the ProcessingThread objects started so far: their position
     processing_thread |-> 0,      \* the thread self.processing_thread refers to, 0 if None
     signals |-> <<>>,             \* processing_complete signals queued to the main thread
     errors |-> <<>>,              \* error_occurred signals queued to the main thread
     crashed |-> FALSE]            \* an exception left a slot

\* the world the handlers work on
W == [ctx |-> ctx, cp |-> choice_processor, caps |-> caps_processor, num |-> numbered_processor,
      file |-> data_file, debug |-> debug_txt, win |-> window, shown |-> shown, ret |-> "None",
      raised |-> FALSE]

Set(w) ==
    /\ ctx' = w.ctx
    /\ choice_processor' = w.cp
    /\ caps_processor' = w.caps
    /\ numbered_processor' = w.num
    /\ data_file' = w.file
    /\ debug_txt' = w.debug
    /\ window' = [w.win EXCEPT !.crashed = w.raised]
    /\ shown' = w.shown

\* InteractiveChoiceProcessor()
NewChoiceProcessor ==
    [current_word |-> None, current_match |-> 0, matches |-> <<>>, processed_words |-> 0,
     total_words |-> 0, current_text |-> <<>>]

NoCall == [op |-> "none", arg |-> <<>>, ret |-> "None", raised |-> FALSE, hist |-> <<>>,
           pre |-> [text |-> <<>>, ignore_set |-> {}, lowercase_set |-> {}, log |-> <<>>,
                    cp |-> NewChoiceProcessor, caps |-> NewCapsProcessor,
                    file |-> <<>>, debug |-> <<>>, shown |-> <<>>]]

\* the record of a delivered call: an engine's handler with the state it started from,
\* a save routine or a numbered-line operation with its argument; any other handler clears
\* the record
Called(op, arg, w) ==
    call' = IF op \in {"handle_choice", "handle_caps_choice"}
            THEN [op |-> op, arg |-> arg, ret |-> w.ret, raised |-> w.raised,
                  hist |-> IF op = call.op THEN Append(call.hist, arg) ELSE <<arg>>,
                  pre |-> [text |-> ctx.text, ignore_set |-> ctx.ignore_set,
                           lowercase_set |-> ctx.lowercase_set, log |-> ctx.processing_log,
                           cp |-> choice_processor, caps |-> caps_processor,
                           file |-> data_file, debug |-> debug_txt, shown |-> shown]]
            ELSE IF op \in {"save_caps_data_file", "save_default_directory_to_data_file",
                             "save_and_next", "go_next", "go_previous", "load_configuration"}
            THEN [NoCall EXCEPT !.op = op, !.arg = arg]
            ELSE NoCall

\* the handler op was delivered with arg and left the world w
Deliver(op, arg, w) == Set(w) /\ Called(op, arg, w)

complete_all_processing(w) ==
    [w EXCEPT !.win.progress_visible = FALSE, !.win.start_button_enabled = TRUE,
              !.win.save_button_enabled = TRUE]

start_interactive_choices(w) ==
    process_choices([w EXCEPT !.shown = <<>>])

start_all_caps_processing(w, order) ==
    process_all_caps_sequences([w EXCEPT !.shown = <<>>], order)

RECURSIVE finish_current_interactive_step(_, _)
\* BookfixMainWindow.start_numbered_line_edit
start_numbered_line_edit(w, order) ==
    LET started(w1) ==
            IF w1.ret = "False" THEN finish_current_interactive_step(w1, order) ELSE w1
    IN  started(numbered_start(update_text_display(w, w.ctx.text)))

start_next_interactive_step(w, order) ==
    IF w.win.pending_interactive_steps = <<>>
    THEN complete_all_processing(w)
    ELSE LET step == Head(w.win.pending_interactive_steps)
             w1 == [w EXCEPT !.win.pending_interactive_steps = Tail(@),
                             !.win.current_interactive_step = step,
                             !.win.panel_visible = TRUE]
         IN  IF step = "interactive_choices" THEN start_interactive_choices(w1)
             ELSE IF step = "all_caps_processing" THEN start_all_caps_processing(w1, order)
             ELSE start_numbered_line_edit(w1, order)

finish_current_interactive_step(w, order) ==
    LET w1 == update_text_display(
                  [w EXCEPT !.win.current_interactive_step = "None",
                            !.win.choice_buttons = <<>>, !.win.buttons = "none",
                            !.win.highlight = NoSpan],
                  w.ctx.text)
    IN  IF w1.win.pending_interactive_steps # <<>>
        THEN start_next_interactive_step(w1, order)
        ELSE complete_all_processing([w1 EXCEPT !.win.panel_visible = FALSE])

handle_choice_selection(w, choice, order) ==
    LET returned(w1) ==
            IF w1.raised THEN w1
            ELSE IF w1.ret = "False"
                 THEN [finish_current_interactive_step(w1, order) EXCEPT !.ret = w1.ret]
                 ELSE w1
    IN  returned(handle_choice(w, choice))

handle_caps_selection(w, choice, order) ==
    LET returned(w1) ==
            IF w1.ret = "True" THEN w1
            ELSE [finish_current_interactive_step(w1, order) EXCEPT !.ret = w1.ret]
    IN  returned(handle_caps_choice(w, choice, order))

handle_numbered_apply(w, edited_text, order) ==
    LET returned(w1) ==
            IF w1.ret = "False"
            THEN [finish_current_interactive_step(apply_edits(w1), order) EXCEPT !.ret = w1.ret]
            ELSE w1
    IN  returned(save_and_next(w, edited_text))

handle_numbered_skip(w, order) ==
    LET returned(w1) ==
            IF w1.ret = "False"
            THEN [finish_current_interactive_step(apply_edits(w1), order) EXCEPT !.ret = w1.ret]
            ELSE w1
    IN  returned(go_next(w))

handle_skip(w, order) ==
    IF w.win.current_interactive_step = "interactive_choices"
    THEN handle_choice(w, <<>>)
    ELSE IF w.win.current_interactive_step = "all_caps_processing"
         THEN handle_caps_selection(w, "n", order)
         ELSE IF w.win.current_interactive_step = "numbered_line_edit"
              THEN handle_numbered_skip(w, order)
              ELSE w

load_configuration(w) == [w EXCEPT !.ctx = load_data_file(@, w.file)]

\* the Previous button acts in the numbered-line step only
handle_previous(w) ==
    IF w.win.current_interactive_step = "numbered_line_edit" THEN go_previous(w) ELSE w

load_file(w, content, file_path) ==
    [w EXCEPT !.ctx.text = content, !.ctx.filepath = file_path,
              !.win.start_button_enabled = TRUE]

\* the interactive steps that are checked, in the order start_processing appends them
RECURSIVE EnabledInteractive(_, _)
EnabledInteractive(checked, order) ==
    IF order = <<>> THEN <<>>
    ELSE (IF Head(order) \in checked THEN <<Head(order)>> ELSE <<>>)
            \o EnabledInteractive(checked, Tail(order))

start_processing(w) ==
    IF w.ctx.text = <<>> THEN w
    ELSE [w EXCEPT !.win.start_button_enabled = FALSE,
                   !.win.progress_visible = TRUE,
                   !.win.pending_interactive_steps =
                        EnabledInteractive(w.win.checkboxes, InteractiveStepOrder),
                   !.debug = <<>>,
                   !.win.threads = Append(@, [pc |-> "pipeline", enabled_steps |-> w.win.checkboxes]),
                   !.win.processing_thread = Len(w.win.threads) + 1]

on_processing_complete(w, order) ==
    LET w1 == update_text_display(w, w.ctx.text)
    IN  IF w1.win.pending_interactive_steps # <<>>
        THEN start_next_interactive_step(w1, order)
        ELSE complete_all_processing(w1)

\* on_processing_error: the progress bar is hidden, Start is enabled again, a message is shown
on_processing_error(w) ==
    [w EXCEPT !.win.progress_visible = FALSE, !.win.start_button_enabled = TRUE]

----------------------------------------------------------------------------
(* ProcessingThread.run: run_processing on the context the window shares with it *)

\* convert_to_lowercase
convert_to_lowercase(c) == log_change([c EXCEPT !.text = LowerStr(@)], "convert_lowercase")

\* re.compile(old) raises re.error: the pattern has an unbalanced parenthesis
BadPattern(old) == \E k \in 1..Len(old) : old[k] = "("
\* pattern.sub(new, text) raises re.error: the template refers to a group the pattern lacks
BadTemplate(new) == \E k \in 1..Len(new) : new[k] = "\\1"

RECURSIVE ScanLiteral(_, _, _)
\* pattern.finditer(t) for a pattern without metacharacters: leftmost, non-overlapping
ScanLiteral(t, old, from) ==
    IF from + Len(old) > Len(t) THEN <<>>
    ELSE IF \A k \in 1..Len(old) : t[from + k] = old[k]
         THEN <<<<from, from + Len(old)>>>> \o ScanLiteral(t, old, from + Max(Len(old), 1))
         ELSE ScanLiteral(t, old, from + 1)

\* pattern.sub(new, text) raises IndexError: the template names a group the pattern lacks
UnknownGroup(new) == \E k \in 1..Len(new) : new[k] = "\\g<x>"

\* what parsing the template raises: the first faulty reference from the left decides
TemplateError(new) ==
    IF ~(BadTemplate(new) \/ UnknownGroup(new)) THEN "None"
    ELSE LET first == CHOOSE k \in 1..Len(new) :
                          /\ new[k] \in {"\\1", "\\g<x>"}
                          /\ \A j \in 1..(k - 1) : new[j] \notin {"\\1", "\\g<x>"}
         IN  IF new[first] = "\\1" THEN "re.error" ELSE "IndexError"

RECURSIVE run_rules(_, _, _)
\* for old, new in ctx.replacements.items(): a rule that raises re.error is skipped, any
\* other exception leaves the loop and the function
run_rules(t, rules, replacement_count) ==
    IF rules = <<>> THEN [text |-> t, replacement_count |-> replacement_count, raised |-> FALSE]
    ELSE LET old == Head(rules).word
             new == Head(rules).options
             matches == ScanLiteral(t, old, 0)
         IN  IF BadPattern(old) \/ TemplateError(new) = "re.error"
             THEN run_rules(t, Tail(rules), replacement_count)
             ELSE IF TemplateError(new) = "IndexError"
             THEN [text |-> t, replacement_count |-> replacement_count, raised |-> TRUE]
             ELSE run_rules(ReplaceSpans(t, matches, 0, new), Tail(rules),
                            replacement_count + Len(matches))

\* ctx.text after the loop over the rules
apply_rules(t, rules) == run_rules(t, rules, 0).text

\* the exception leaves the function in front of ctx.log_change
apply_automatic_replacements(c) ==
    IF run_rules(c.text, c.replacements, 0).raised
    THEN [c EXCEPT !.text = apply_rules(@, c.replacements)]
    ELSE log_change([c EXCEPT !.text = apply_rules(@, c.replacements)], "automatic_replacements")

RECURSIVE insert_periods(_, _)
\* for abbr in order: text = re.sub(r'\babbr\b', '.'.join(abbr) + '.', text)
insert_periods(t, order) ==
    IF order = <<>> THEN t
    ELSE LET abbr == Head(order)
             replacement == [k \in 1..(2 * Len(abbr)) |-> IF k % 2 = 1 THEN abbr[(k + 1) \div 2] ELSE "."]
         IN  insert_periods(sub_word(t, abbr, replacement), Tail(order))

\* order: the order in which this run iterates ctx.periods
insert_periods_into_abbreviations(c, order) ==
    log_change([c EXCEPT !.text = insert_periods(@, order)], "insert_periods")

\* line.strip().isdigit()
IsPageNumber(line) == strip(line) # <<>> /\ \A k \in 1..Len(strip(line)) : IsDigit(strip(line)[k])
IsBlank(line) == strip(line) = <<>>

\* pagination_log of remove_pagination on a .txt file: one entry for each line it removes
pagination_log(c) ==
    LET ext == IF c.filepath = None \/ c.filepath = <<>> THEN "" ELSE c.filepath[Len(c.filepath)]
    IN  IF ext = ".txt" THEN SelectSeq(splitlines(c.text), IsPageNumber) ELSE <<>>

\* remove_pagination; the file name is kept as a sequence whose last element is the
\* extension. For .html and .xhtml this is the path taken without BeautifulSoup
remove_pagination(c) ==
    LET ext == IF c.filepath = None \/ c.filepath = <<>> THEN "" ELSE c.filepath[Len(c.filepath)]
        keep(line) == ~IsPageNumber(line)
    IN  IF ext \in {".xhtml", ".html"} THEN c
        ELSE log_change(
                 IF ext = ".txt"
                 THEN [c EXCEPT !.text = join_lines(SelectSeq(splitlines(@), keep))]
                 ELSE c,
                 "remove_pagination")

\* [MDCLXVI]
IsRomanLetter(c) == c \in {"M", "D", "C", "L", "X", "V", "I"}
\* the letters only
LettersOnly(c) == \E k \in 1..Len(UpperLetters) : c = UpperLetters[k] \/ c = LowerLetters[k]

\* [A-Za-z&.\-+:;/\\] of the two lookarounds of roman_pattern
RomanBlocked(c) ==
    \/ \E k \in 1..Len(UpperLetters) : c = UpperLetters[k] \/ c = LowerLetters[k]
    \/ c \in {"&", ".", "-", "+", ":", ";", "/", "\\"}

\* what roman_to_arabic returns for None
NotANumeral == -1

\* roman_to_arabic: the validator ^M{0,3}(?:CM|CD|D?C{0,3})(?:XC|XL|L?X{0,3})(?:IX|IV|V?I{0,3})$
\* and the sum over the reversed string
roman_to_arabic(token) ==
    LET roman == UpperStr(token)
        n == Len(roman)
        UpTo3(ch) == {<<>>, <<ch>>, <<ch, ch>>, <<ch, ch, ch>>}
        Place(one, five, ten) ==
            {<<one, ten>>, <<one, five>>} \cup {d \o r : d \in {<<>>, <<five>>}, r \in UpTo3(one)}
        fullmatch ==
            \E i \in 0..n : \E j \in i..n : \E k \in j..n :
                /\ Slice(roman, 0, i) \in UpTo3("M")
                /\ Slice(roman, i, j) \in Place("C", "D", "M")
                /\ Slice(roman, j, k) \in Place("X", "L", "C")
                /\ Slice(roman, k, n) \in Place("I", "V", "X")
        roman_map(ch) ==
            CASE ch = "I" -> 1 [] ch = "V" -> 5 [] ch = "X" -> 10 [] ch = "L" -> 50
              [] ch = "C" -> 100 [] ch = "D" -> 500 [] ch = "M" -> 1000
        \* total over roman[p..n] and the value of roman[p]
        total[p \in 1..(n + 1)] ==
            IF p = n + 1 THEN 0
            ELSE IF p = n \/ roman_map(roman[p]) >= roman_map(roman[p + 1])
                 THEN total[p + 1] + roman_map(roman[p])
                 ELSE total[p + 1] - roman_map(roman[p])
    IN  IF roman = <<"I">> THEN NotANumeral
        ELSE IF ~fullmatch THEN NotANumeral
        ELSE total[1]

RECURSIVE sub_roman(_, _, _)
\* re.sub(roman_pattern, _replace, text) from offset from on: a candidate token is a word of
\* Roman capitals (a single I excepted) with no blocked character next to it
sub_roman(t, from, roman_ignore_set) ==
    IF from >= Len(t) THEN <<>>
    ELSE LET ends == {e \in (from + 1)..Len(t) :
                        /\ \A k \in (from + 1)..e : IsRomanLetter(t[k])
                        /\ e - from >= 2 \/ t[e] # "I"
                        /\ AtBoundary(t, e)
                        /\ e < Len(t) => ~RomanBlocked(t[e + 1])}
             starts == /\ AtBoundary(t, from)
                       /\ from > 0 => ~RomanBlocked(t[from])
         IN  IF starts /\ ends # {}
             THEN LET e == SetMax(ends)
                      token == Slice(t, from, e)
                      val == roman_to_arabic(token)
                  IN  (IF UpperStr(token) \in roman_ignore_set THEN token
                       ELSE IF val > 0 THEN str_int(val) ELSE token)
                          \o sub_roman(t, e, roman_ignore_set)
             ELSE <<t[from + 1]>> \o sub_roman(t, from + 1, roman_ignore_set)

convert_roman_numerals(c) ==
    log_change([c EXCEPT !.text = sub_roman(@, 0, c.roman_ignore_set)], "roman_numerals")

\* a removal that takes out the first blank line only
remove_first_blank_line(c) ==
    LET lines == splitlines(c.text)
        B == {i \in 1..Len(lines) : IsBlank(lines[i])}
        n == CHOOSE i \in B : \A j \in B : i <= j
    IN  log_change(IF B = {} THEN [c EXCEPT !.text = join_lines(lines)]
                   ELSE [c EXCEPT !.text = join_lines(SubSeq(lines, 1, n - 1)
                                                          \o SubSeq(lines, n + 1, Len(lines)))],
                   "remove_blank_lines")

\* removed_lines of remove_blank_lines: original_line_count - final_line_count
removed_lines(c) ==
    LET keep(line) == ~IsBlank(line)
    IN  Len(splitlines(c.text)) - Len(SelectSeq(splitlines(c.text), keep))

remove_blank_lines(c) ==
    LET keep(line) == ~IsBlank(line)
    IN  log_change([c EXCEPT !.text = join_lines(SelectSeq(splitlines(@), keep))],
                   "remove_blank_lines")

\* the steps with insert_periods in front of automatic_replacements
pipeline_periods_first ==
    <<[name |-> "insert_periods", requires_interaction |-> FALSE],
      [name |-> "automatic_replacements", requires_interaction |-> FALSE],
      [name |-> "remove_pagination", requires_interaction |-> FALSE],
      [name |-> "roman_numerals", requires_interaction |-> FALSE],
      [name |-> "convert_lowercase", requires_interaction |-> FALSE],
      [name |-> "remove_blank_lines", requires_interaction |-> FALSE],
      [name |-> "interactive_choices", requires_interaction |-> TRUE],
      [name |-> "all_caps_processing", requires_interaction |-> TRUE],
      [name |-> "numbered_line_edit", requires_interaction |-> TRUE]>>

\* create_processing_pipeline: the steps in pipeline order
create_processing_pipeline ==
    <<[name |-> "automatic_replacements", requires_interaction |-> FALSE],
      [name |-> "insert_periods", requires_interaction |-> FALSE],
      [name |-> "remove_pagination", requires_interaction |-> FALSE],
      [name |-> "roman_numerals", requires_interaction |-> FALSE],
      [name |-> "convert_lowercase", requires_interaction |-> FALSE],
      [name |-> "remove_blank_lines", requires_interaction |-> FALSE],
      [name |-> "interactive_choices", requires_interaction |-> TRUE],
      [name |-> "all_caps_processing", requires_interaction |-> TRUE],
      [name |-> "numbered_line_edit", requires_interaction |-> TRUE]>>

\* step.processor(ctx)
processor(name, c, order) ==
    CASE name = "automatic_replacements" -> apply_automatic_replacements(c)
      [] name = "insert_periods" -> insert_periods_into_abbreviations(c, order)
      [] name = "remove_pagination" -> remove_pagination(c)
      [] name = "roman_numerals" -> convert_roman_numerals(c)
      [] name = "convert_lowercase" -> convert_to_lowercase(c)
      [] name = "remove_blank_lines" -> remove_blank_lines(c)
      [] OTHER -> c

\* step.processor(ctx) raises
processor_raises(name, c) ==
    name = "automatic_replacements" /\ run_rules(c.text, c.replacements, 0).raised

RECURSIVE run_steps(_, _, _, _)
\* for i, step in enumerate(pipeline); an exception of a processor ends the loop
run_steps(c, pipeline, enabled_steps, order) ==
    IF pipeline = <<>> THEN c
    ELSE IF Head(pipeline).name \in enabled_steps /\ ~Head(pipeline).requires_interaction
    THEN IF processor_raises(Head(pipeline).name, c)
         THEN processor(Head(pipeline).name, c, order)
         ELSE run_steps(processor(Head(pipeline).name, c, order), Tail(pipeline),
                        enabled_steps, order)
    ELSE run_steps(c, Tail(pipeline), enabled_steps, order)

RECURSIVE pipeline_raises(_, _, _, _)
\* run_processing_pipeline leaves with an exception
pipeline_raises(c, pipeline, enabled_steps, order) ==
    IF pipeline = <<>> THEN FALSE
    ELSE IF Head(pipeline).name \in enabled_steps /\ ~Head(pipeline).requires_interaction
    THEN \/ processor_raises(Head(pipeline).name, c)
         \/ pipeline_raises(processor(Head(pipeline).name, c, order), Tail(pipeline),
                            enabled_steps, order)
    ELSE pipeline_raises(c, Tail(pipeline), enabled_steps, order)

\* run_processing_pipeline; enabled_steps: the names the map gives True;
\* order: the order in which insert_periods iterates ctx.periods
run_processing_pipeline(c, enabled_steps, order) ==
    run_steps(c, create_processing_pipeline, enabled_steps, order)

\* apply_upper_to_lower(ctx, mapping); order: the order of the mapping's items
apply_upper_to_lower(c, order) ==
    log_change([c EXCEPT !.text = bulk_lowercase(@, order)], "apply_upper_to_lower")

\* "Pre-apply UPPER_TO_LOWER rules" of run_processing
pre_apply(c, enabled_steps, order) ==
    IF "all_caps_processing" \in enabled_steps /\ c.lowercase_set # {}
    THEN apply_upper_to_lower(c, order) ELSE c

----------------------------------------------------------------------------
(* Actions *)

Alive == ~window.crashed

\* the documents the user can pick in the main window
GuiDocs == {<<"a", " ", "A", "A">>}

\* what the save routines are called with
SavedIgnoreSets == {{}, {<<"A", "B">>, <<"B", "B">>}}
SavedLowercaseSets == {{}, {<<"B", "B">>}}
SavedDirectories == {<<"d">>}

\* a replacement is delivered only while the text it produces stays within MaxLiveLen,
\* a choice the engine has no match for only MaxStale times after completion
ChoiceFits(choice) ==
    LET cp == choice_processor
    IN  IF cp.current_match >= Len(cp.matches)
        THEN cp.processed_words < cp.total_words + MaxStale
        ELSE Len(Splice(cp.current_text, cp.matches[cp.current_match + 1][1],
                        cp.matches[cp.current_match + 1][2], choice)) <= MaxLiveLen

\* the worker runs the non-interactive pipeline
ThreadPipeline ==
    \E t \in 1..Len(window.threads) : \E order \in Orders(ctx.periods) :
        /\ Alive
        /\ window.threads[t].pc = "pipeline"
        /\ Set([W EXCEPT !.ctx = run_processing_pipeline(@, window.threads[t].enabled_steps, order),
                         !.win.threads[t].pc =
                             IF pipeline_raises(ctx, create_processing_pipeline,
                                                window.threads[t].enabled_steps, order)
                             THEN "except" ELSE "pre_apply"])
        /\ Called("thread_pipeline", <<>>, W)

\* the worker pre-applies the lowercase set when the all-caps step is enabled
ThreadPreApply ==
    \E t \in 1..Len(window.threads) : \E order \in Orders(ctx.lowercase_set) :
        /\ Alive
        /\ window.threads[t].pc = "pre_apply"
        /\ Set([W EXCEPT !.ctx = pre_apply(@, window.threads[t].enabled_steps, order),
                         !.win.threads[t].pc = "emit"])
        /\ Called("thread_pre_apply", <<>>, W)

\* the worker emits processing_complete, which is queued to the main thread
ThreadEmit ==
    \E t \in 1..Len(window.threads) :
        /\ Alive
        /\ window.threads[t].pc = "emit"
        /\ Set([W EXCEPT !.win.threads[t].pc = "finished", !.win.signals = Append(@, t)])
        /\ Called("thread_emit", <<>>, W)

\* the worker's except clause emits error_occurred, which is queued to the main thread
ThreadExcept ==
    \E t \in 1..Len(window.threads) :
        /\ Alive
        /\ window.threads[t].pc = "except"
        /\ Set([W EXCEPT !.win.threads[t].pc = "finished", !.win.errors = Append(@, t)])
        /\ Called("thread_except", <<>>, W)

\* BookfixMainWindow.__init__ reaches load_configuration
LoadConfiguration ==
    /\ Alive
    /\ Deliver("load_configuration", <<>>, load_configuration(W))

\* the main thread delivers a queued error_occurred to its slot
OnProcessingError ==
    /\ Alive
    /\ window.errors # <<>>
    /\ Deliver("on_processing_error", <<>>, on_processing_error([W EXCEPT !.win.errors = Tail(@)]))

\* the main thread delivers a queued processing_complete to its slot
OnProcessingComplete ==
    \E order \in Orders(ctx.lowercase_set) :
        /\ Alive
        /\ window.signals # <<>>
        /\ Deliver("on_processing_complete", <<>>,
                   on_processing_complete([W EXCEPT !.win.signals = Tail(@)], order))

\* the user clicks one of the option buttons display_choices created
HandleChoiceSelection ==
    \E i \in 1..Len(window.choice_buttons) : \E order \in Orders(ctx.lowercase_set) :
        /\ Alive
        /\ window.buttons = "choices"
        /\ ChoiceFits(window.choice_buttons[i])
        /\ Deliver("handle_choice", window.choice_buttons[i],
                   handle_choice_selection(W, window.choice_buttons[i], order))

\* the user clicks Skip while the choices step is current
HandleSkipChoice ==
    \E order \in Orders(ctx.lowercase_set) :
        /\ Alive
        /\ window.panel_visible
        /\ window.current_interactive_step = "interactive_choices"
        /\ ChoiceFits(<<>>)
        /\ Deliver("handle_choice", <<>>, handle_skip(W, order))

\* the user clicks one of the four disposition buttons display_caps_choices created
HandleCapsSelection ==
    \E choice \in {"y", "n", "a", "i"} :
        \E order \in (IF choice = "i"
                      THEN Orders(ctx.lowercase_set \cup {caps_processor.current_caps_sequence})
                      ELSE {<<>>}) :
            /\ Alive
            /\ window.buttons = "caps"
            /\ Deliver("handle_caps_choice", <<choice>>, handle_caps_selection(W, choice, order))

\* the user clicks Skip while the all-caps step is current
HandleSkipCaps ==
    /\ Alive
    /\ window.panel_visible
    /\ window.current_interactive_step = "all_caps_processing"
    /\ Deliver("handle_caps_choice", <<"n">>, handle_skip(W, <<>>))

\* the user clicks Previous
HandlePrevious ==
    /\ Alive
    /\ window.panel_visible
    /\ Set(handle_previous(W))
    /\ Called("handle_previous", <<>>, W)

\* what the user may leave in the line editor: the line as displayed or one of these
NumEdits == {<<"x">>, <<>>, <<"x", "\n", "y">>, <<" ", "1", "1", "1", " ">>}

\* the user clicks Apply & Next
HandleNumberedApply ==
    \E edited_text \in NumEdits \cup
            {numbered_processor.numbered_lines[k].line :
                k \in {numbered_processor.current_numbered_idx + 1}
                          \cap (1..Len(numbered_processor.numbered_lines))} :
        /\ Alive
        /\ window.buttons = "numbered"
        /\ Deliver("save_and_next", edited_text, handle_numbered_apply(W, edited_text, <<>>))

\* the user clicks Skip while the numbered-line step is current
HandleNumberedSkip ==
    /\ Alive
    /\ window.panel_visible
    /\ window.current_interactive_step = "numbered_line_edit"
    /\ Deliver("go_next", <<>>, handle_skip(W, <<>>))

\* the user clicks Previous while the numbered-line step is current
HandleNumberedPrevious ==
    /\ Alive
    /\ window.panel_visible
    /\ window.prev_button_enabled
    /\ window.current_interactive_step = "numbered_line_edit"
    /\ Deliver("go_previous", <<>>, handle_previous(W))

\* the user picks a document in the file dialog
LoadFile ==
    \E doc \in GuiDocs :
        /\ Alive
        /\ Deliver("load_file", doc, load_file(W, doc, <<"f">>))

\* the user clicks Start Processing
StartProcessing ==
    /\ Alive
    /\ window.start_button_enabled
    /\ Len(window.threads) < MaxRuns
    /\ Deliver("start_processing", <<>>, start_processing(W))

\* save_caps_data_file is called with two sets
SaveCapsDataFile ==
    \E ignore_set \in SavedIgnoreSets : \E lowercase_set \in SavedLowercaseSets :
        /\ Set([W EXCEPT !.file = save_caps_data_file(@, ignore_set, lowercase_set)])
        /\ Called("save_caps_data_file", <<ignore_set, lowercase_set>>, W)

\* save_default_directory_to_data_file is called with a directory
SaveDefaultDirectory ==
    \E directory_path \in SavedDirectories :
        /\ Set([W EXCEPT !.file = save_default_directory_to_data_file(@, directory_path)])
        /\ Called("save_default_directory_to_data_file", directory_path, W)

----------------------------------------------------------------------------
(* Initial states *)

SeqsUpTo(S, n) == UNION {[1..k -> S] : k \in 0..n}

\* BookfixMainWindow.__init__ with the configuration file f on disk and the steps checked
Constructed(f, checked) ==
    load_configuration(
        [ctx |-> BookfixContext, cp |-> NewChoiceProcessor, caps |-> NewCapsProcessor,
         num |-> NewNumberedProcessor, file |-> f, debug |-> <<>>, win |-> NewWindow(checked), shown |-> <<>>,
         ret |-> "None", raised |-> FALSE])

\* the state of a window that was constructed with the configuration file f,
\* into which the document doc was loaded, and whose worker has run for the checked steps
\* and emitted processing_complete (the signal is not delivered yet)
Launched(f, doc, checked, order) ==
    LET w1 == start_processing(load_file(Constructed(f, checked), doc, <<"f">>))
        c2 == pre_apply(run_processing_pipeline(w1.ctx, checked, <<>>), checked, order)
    IN  [w1 EXCEPT !.ctx = c2, !.win.threads[1].pc = "finished", !.win.signals = <<1>>]

InitFrom(w) ==
    /\ ctx = w.ctx
    /\ choice_processor = w.cp
    /\ caps_processor = w.caps
    /\ numbered_processor = w.num
    /\ data_file = w.file
    /\ debug_txt = w.debug
    /\ window = w.win
    /\ shown = w.shown
    /\ call = NoCall

----------------------------------------------------------------------------
(* The choices pass: one run with only "Interactive word choices" checked *)

ChoiceAlphabet == {"a", "A", "b", " "}
ChoiceDocs == SeqsUpTo(ChoiceAlphabet, MaxTextLen) \ {<<>>}

\* a -> b;a;a a
ChoiceFileA ==
    <<"# CHOICE", "\n", "a", " ", "->", " ", "b", ";", "a", ";", "a", " ", "a", "\n">>
\* a -> b / b -> A;b / ab -> b
ChoiceFileB ==
    <<"# CHOICE", "\n", "a", "->", "b", "\n", "b", "->", "A", ";", "b", "\n",
      "a", "b", "->", "b", "\n">>
\* no CHOICE section
ChoiceFileEmpty == <<"# PERIODS", "\n", "a", "\n">>

RedText == <<"r", "e", "d", " ", "r", "e", "d", " ", "r", "e", "d">>
\* red -> blue;red
RedFile ==
    <<"# CHOICE", "\n", "r", "e", "d", " ", "->", " ", "b", "l", "u", "e", ";", " ",
      "r", "e", "d", "\n">>

ShrinkText == <<"a", "a", "b", " ", "a", "a", "b">>
\* aab -> b;aab
ShrinkFile == <<"# CHOICE", "\n", "a", "a", "b", "->", "b", ";", "a", "a", "b", "\n">>

InitChoice ==
    \E f \in {ChoiceFileA, ChoiceFileB, ChoiceFileEmpty, RedFile, ShrinkFile} :
        \E doc \in (IF f = RedFile THEN {RedText}
                    ELSE IF f = ShrinkFile THEN {ShrinkText} ELSE ChoiceDocs) :
            InitFrom(Launched(f, doc, {"interactive_choices"}, <<>>))

NextChoice == OnProcessingComplete \/ HandleChoiceSelection \/ HandleSkipChoice

SpecChoice == InitChoice /\ [][NextChoice]_vars

----------------------------------------------------------------------------
(* Properties of the choices pass *)

\* the choice engine has presented a match that no selection has answered yet
ChoiceAwaiting ==
    /\ window.current_interactive_step = "interactive_choices"
    /\ ~window.crashed
    /\ Len(shown) > Len(call.hist)

\* what the last handle_choice call started from
PreCp == call.pre.cp
PreHasMatch == PreCp.current_match < Len(PreCp.matches)
PreSpan == PreCp.matches[PreCp.current_match + 1]
PreMatched == SubSeq(PreCp.current_text, PreSpan[1] + 1, PreSpan[2])
IsChoiceCall == call.op = "handle_choice" /\ ~call.raised /\ PreHasMatch
IsNoOp == IsChoiceCall /\ LowerStr(call.arg) = LowerStr(PreMatched)
IsReplacement == IsChoiceCall /\ LowerStr(call.arg) # LowerStr(PreMatched)

\* C1: while the choice engine awaits a selection, current_match indexes the match list and
\* that match's span lies inside the live text and covers a whole-word, case-insensitive
\* occurrence of current_word in it
C1_LiveMatch ==
    ChoiceAwaiting =>
        LET cp == choice_processor
        IN  /\ cp.current_text = ctx.text
            /\ cp.current_match < Len(cp.matches)
            /\ LET m == cp.matches[cp.current_match + 1]
               IN  /\ 0 <= m[1] /\ m[1] < m[2] /\ m[2] <= Len(cp.current_text)
                   /\ m[2] - m[1] = Len(cp.current_word)
                   /\ LowerStr(SubSeq(cp.current_text, m[1] + 1, m[2])) = LowerStr(cp.current_word)
                   /\ AtBoundary(cp.current_text, m[1])
                   /\ AtBoundary(cp.current_text, m[2])

\* a prompt is pending after a no-op and after a replacement that made the text longer
C1_Witness ==
    /\ ChoiceAwaiting
    /\ IsReplacement
    /\ Len(ctx.text) > Len(call.pre.text)
    /\ \E i \in 1..Len(call.hist) : LowerStr(call.hist[i]) = LowerStr(choice_processor.current_word)

\* a prompt is pending after a replacement that made the text shorter
C1_WitnessShorter ==
    ChoiceAwaiting /\ IsReplacement /\ Len(ctx.text) < Len(call.pre.text)

\* the first index of found whose match starts at or after end
FirstFrom(found, end) == {i \in 1..Len(found) : found[i][1] >= end}

\* C2: a replacement splices the option into the span, keeps ctx.text equal to the engine's
\* text, recomputes the match list from the new text and moves to the first recomputed match
\* that starts at or after the old end offset; with no such match the word is finished
C2_Replacement ==
    IsReplacement =>
        LET newtext == SubSeq(PreCp.current_text, 1, PreSpan[1]) \o call.arg
                          \o SubSeq(PreCp.current_text, PreSpan[2] + 1, Len(PreCp.current_text))
            found == finditer_word(newtext, PreCp.current_word)
            Q == FirstFrom(found, PreSpan[2])
            cp == choice_processor
        IN  /\ cp.current_text = newtext
            /\ ctx.text = newtext
            /\ IF Q # {}
               THEN /\ cp.current_word = PreCp.current_word
                    /\ cp.processed_words = PreCp.processed_words
                    /\ cp.matches = found
                    /\ cp.current_match + 1 \in Q
                    /\ \A i \in Q : cp.current_match + 1 <= i
                    /\ call.ret = "True"
               ELSE cp.processed_words > PreCp.processed_words

\* a replacement after which the next match is not the first of the recomputed list
C2_Witness ==
    /\ IsReplacement
    /\ choice_processor.current_word = PreCp.current_word
    /\ choice_processor.processed_words = PreCp.processed_words
    /\ choice_processor.current_match > 0
    /\ Len(call.arg) # PreSpan[2] - PreSpan[1]

RedStr == <<"r", "e", "d">>
BlueStr == <<"b", "l", "u", "e">>

\* C8: on "red red red" with red -> blue;red, the selections red, blue, blue end with
\* "red blue blue", two audit entries, the word finished by the third selection and not
\* before, and the skipped first occurrence never presented again
C8_RedExample ==
    (data_file = RedFile /\ call.op = "handle_choice") =>
        /\ Len(call.hist) < 3 /\ call.hist = SubSeq(<<RedStr, BlueStr, BlueStr>>, 1, Len(call.hist))
              => choice_processor.processed_words = 0 /\ call.ret = "True"
        /\ call.hist = <<RedStr, BlueStr, BlueStr>> =>
              /\ ctx.text = <<"r", "e", "d", " ", "b", "l", "u", "e", " ", "b", "l", "u", "e">>
              /\ debug_txt = <<<<RedStr, BlueStr>>, <<RedStr, BlueStr>>>>
              /\ choice_processor.processed_words = 1
              /\ call.ret = "False"
              /\ Len(shown) = 3
              /\ \A i \in 2..Len(shown) : shown[i].span # <<0, 3>>

C8_Witness ==
    data_file = RedFile /\ call.op = "handle_choice" /\ call.hist = <<RedStr, BlueStr, BlueStr>>

\* C9: a selection equal to the matched text (ignoring case) leaves the text, ctx.text and the
\* audit log unchanged and removes exactly the current match; the index keeps its value and
\* the match now at that index is presented, or the word is finished when there is none
C9_NoOp ==
    IsNoOp =>
        LET cp == choice_processor
            n  == Len(PreCp.matches)
            popped == [i \in 1..(n - 1) |->
                          IF i <= PreCp.current_match THEN PreCp.matches[i] ELSE PreCp.matches[i + 1]]
        IN  /\ ctx.text = call.pre.text
            /\ cp.current_text = PreCp.current_text
            /\ debug_txt = call.pre.debug
            /\ IF PreCp.current_match < n - 1
               THEN /\ cp.matches = popped
                    /\ cp.current_match = PreCp.current_match
                    /\ cp.current_word = PreCp.current_word
                    /\ cp.processed_words = PreCp.processed_words
                    /\ call.ret = "True"
                    /\ shown = Append(call.pre.shown,
                                      [item |-> cp.current_word, span |-> popped[cp.current_match + 1],
                                       of |-> Len(popped)])
               ELSE /\ cp.processed_words > PreCp.processed_words
                    /\ cp.current_word = PreCp.current_word =>
                          cp.matches = popped /\ cp.current_match = PreCp.current_match

\* a no-op at an index other than 0 that leaves a match at that index
C9_Witness ==
    IsNoOp /\ PreCp.current_match > 0 /\ PreCp.current_match < Len(PreCp.matches) - 1

\* C10: handle_choice returns False exactly when the call exhausts the word list, and a call
\* that returns True leaves a prompt pending for a word with at least one match
C10_CompletionSignalled ==
    (call.op = "handle_choice" /\ ~call.raised) =>
        LET cp == choice_processor
        IN  /\ call.ret = "False" <=>
                  (PreCp.processed_words < PreCp.total_words /\ cp.processed_words = cp.total_words)
            /\ call.ret = "True" =>
                  cp.processed_words < cp.total_words /\ cp.current_match < Len(cp.matches)

\* C12: a choice delivered when there is nothing to decide never raises and never changes the
\* text: handle_choice without a current match advances or reports completion,
\* handle_caps_choice without a current sequence reports completion, and an unrecognised
\* caps choice changes no state and keeps the prompt pending
C12_NothingToDecide ==
    /\ (call.op = "handle_choice" /\ ~PreHasMatch) =>
          /\ ~call.raised
          /\ call.ret \in {"True", "False"}
          /\ ctx.text = call.pre.text
          /\ choice_processor.current_text = PreCp.current_text
    /\ (call.op = "handle_caps_choice" /\ call.pre.caps.current_caps_sequence = None) =>
          call.ret = "False" /\ ctx.text = call.pre.text
    /\ caps_processor.current_caps_sequence # None =>
          handle_caps_choice(W, "x", <<>>) = [W EXCEPT !.ret = "True"]

----------------------------------------------------------------------------
(* The all-caps pass: one run with only "All-caps sequence processing" checked *)

MaxCapsLen == 5        \* longest document of the all-caps pass drawn from CapsAlphabet

CapsAlphabet == {"A", "B", " ", "."}
\* three spans with one text; a sequence that is a whole-word part of a longer one;
\* two spans with one text in front of another sequence; a sequence in front of a longer one
\* that begins with it and of a third; the longer one in front of the shorter one
CapsLongDocs ==
    {<<"A", "A", ".", "A", "A", ".", "A", "A">>,
     <<"A", " ", "A", ".", "A", " ", "A", " ", "A">>,
     <<"A", "A", ".", "A", "A", ".", "B", "B">>,
     <<"A", "A", ".", "A", "A", " ", "B", ".", "B", "B">>,
     <<"A", "A", " ", "B", ".", "A", "A">>}
CapsDocs == (SeqsUpTo(CapsAlphabet, MaxCapsLen) \ {<<>>}) \cup CapsLongDocs

\* CAP_IGNORE: BB
CapsFileIgnore == <<"# CAP_IGNORE", "\n", "B", "B", "\n", "# PERIODS", "\n", "a", "\n">>
\* UPPER_TO_LOWER: AA, AA B; CAP_IGNORE: AB
CapsFileLower ==
    <<"# UPPER_TO_LOWER", "\n", "A", "A", "\n", "A", "A", " ", "B", "\n",
      "# CAP_IGNORE", "\n", "A", "B", "\n">>
\* UPPER_TO_LOWER: BB, the marker line behind a byte-order mark
CapsFileBom == <<BOM, "# UPPER_TO_LOWER", "\n", "B", "B", "\n">>

InitCaps ==
    \E f \in {ChoiceFileEmpty, CapsFileIgnore, CapsFileLower, CapsFileBom} :
        \E doc \in CapsDocs :
            \E order \in Orders(load_data_file(BookfixContext, f).lowercase_set) :
                InitFrom(Launched(f, doc, {"all_caps_processing"}, order))

NextCaps == OnProcessingComplete \/ HandleCapsSelection \/ HandleSkipCaps

SpecCaps == InitCaps /\ [][NextCaps]_vars

----------------------------------------------------------------------------
(* Properties of the all-caps pass *)

\* what the last handle_caps_choice call started from
PreCaps == call.pre.caps
PreSeq == PreCaps.current_caps_sequence
IsCapsCall(choice) ==
    call.op = "handle_caps_choice" /\ call.arg = <<choice>> /\ PreSeq # None

\* the offsets at which word occurs in t as a whole word, case-sensitively
Occurrences(t, word) == {i \in 0..(Len(t) - Len(word)) : WordAt(t, word, i, FALSE)}

\* the snapshot spans whose text is seq
SnapshotSpans(seq) ==
    {caps_processor.all_caps_matches_original[k].span :
        k \in {j \in 1..Len(caps_processor.all_caps_matches_original) :
                  caps_processor.all_caps_matches_original[j].text = seq}}

\* C3: in one all-caps pass no sequence text is presented twice, and the sequence whose
\* prompt is pending is a snapshot sequence that is not in ignore_set
C3_PromptOnce ==
    window.checkboxes = {"all_caps_processing"} =>
        /\ \A i, j \in 1..Len(shown) : i # j => shown[i].item # shown[j].item
        /\ window.buttons = "caps" =>
              /\ shown # <<>>
              /\ shown[Len(shown)].item \notin ctx.ignore_set
              /\ shown[Len(shown)].item = caps_processor.current_caps_sequence
              /\ shown[Len(shown)].span \in SnapshotSpans(shown[Len(shown)].item)

\* 'Add to Ignore' for a sequence with several snapshot spans, the later ones passed over
C3_Witness ==
    /\ IsCapsCall("a")
    /\ Cardinality(SnapshotSpans(PreSeq)) >= 2
    /\ PreSeq \in ctx.ignore_set \ call.pre.ignore_set
    /\ caps_processor.current_match_index = Len(caps_processor.all_caps_matches_original)

\* C4: after 'Auto Lowercase' for S, S has joined lowercase_set, the sets the loader reads from
\* the rewritten file are the sets in memory, every whole-word occurrence of every member of
\* lowercase_set that the text held holds the member's lowercase form, and all snapshot spans
\* of S are recorded
C4_AutoLowercase ==
    IsCapsCall("i") =>
        LET loaded == load_data_file(BookfixContext, data_file)
        IN  /\ ctx.lowercase_set = call.pre.lowercase_set \cup {PreSeq}
            /\ loaded.lowercase_set = ctx.lowercase_set
            /\ loaded.ignore_set = ctx.ignore_set
            /\ Len(ctx.text) = Len(call.pre.text)
            /\ \A m \in ctx.lowercase_set :
                  \A i \in Occurrences(call.pre.text, m) :
                      SubSeq(ctx.text, i + 1, i + Len(m)) = LowerStr(m)
            /\ SnapshotSpans(PreSeq) \subseteq caps_processor.lowercased_original_spans

CapsExhausted ==
    \A k \in 1..Len(caps_processor.all_caps_matches_original) :
        \/ caps_processor.all_caps_matches_original[k].text \in ctx.ignore_set
        \/ caps_processor.all_caps_matches_original[k].text \in caps_processor.decided_sequences_text

\* C11: handle_caps_choice returns False exactly when no undecided, non-ignored detected
\* sequence remains, and an all-caps pass that has nothing left to prompt for has signalled
\* completion to the window and recorded all_caps_processing in the processing log
C11_CapsCompletion ==
    /\ \A c \in {"y", "n", "a", "i"} : IsCapsCall(c) => (call.ret = "False" <=> CapsExhausted)
    /\ (window.checkboxes = {"all_caps_processing"} /\ window.signals = <<>> /\ CapsExhausted) =>
          /\ window.current_interactive_step = "None"
          /\ \E k \in 1..Len(ctx.processing_log) : ctx.processing_log[k] = "all_caps_processing"

----------------------------------------------------------------------------
(* The configuration file under the save routines and the loader *)

FileLines ==
    {<<"# CAP_IGNORE", "\n">>, <<"# UPPER_TO_LOWER", "\n">>, <<"# CHOICE", "\n">>,
     <<"# DEFAULT_FILE_DIR", "\n">>, <<BOM, "# CAP_IGNORE", "\n">>,
     <<"A", "A", "\n">>, <<"a", "->", "b", "\n">>, <<"#", " ", "c", "\n">>, <<"\n">>}

\* files whose default directory line makes the loader raise part-way
FileRaising ==
    {<<<<"# ROMAN_IGNORE", "\n">>, <<"A", "A", "\n">>, <<"# DEFAULT_FILE_DIR", "\n">>, <<"~", "\n">>>>,
     <<<<"# CHOICE", "\n">>, <<"a", "->", "b", "\n">>, <<"# DEFAULT_FILE_DIR", "\n">>, <<"~", "\n">>>>,
     <<<<"# DEFAULT_FILE_DIR", "\n">>, <<"d", "\n">>, <<"~", "\n">>>>}

InitFile ==
    \E lines \in SeqsUpTo(FileLines, MaxFileLines) \cup FileRaising :
        InitFrom(Constructed(writelines(lines), {}))

NextFile == SaveCapsDataFile \/ SaveDefaultDirectory

SpecFile == InitFile /\ [][NextFile]_vars

RECURSIVE KeptLines(_, _, _, _)
\* the lines from index i on outside the sections named in names: the lines before the first
\* marker, and the marker and the lines of every other section, where a section is what the
\* loader attributes to a marker: the lines up to the next marker line
KeptLines(lines, i, section, names) ==
    IF i >= Len(lines) THEN <<>>
    ELSE LET stripped == strip_zw(lines[i + 1])
             here == IF IsMarkerLine(stripped) THEN LoadSectionName(stripped[1]) ELSE section
         IN  (IF here \in names THEN <<>> ELSE <<lines[i + 1]>>)
                 \o KeptLines(lines, i + 1, here, names)

RECURSIVE IsSubsequence(_, _)
\* the elements of a occur in b in the same relative order
IsSubsequence(a, b) ==
    IF a = <<>> THEN TRUE
    ELSE IF b = <<>> THEN FALSE
    ELSE IF Head(a) = Head(b) THEN IsSubsequence(Tail(a), Tail(b))
    ELSE IsSubsequence(a, Tail(b))

\* C6: every line outside the CAP_IGNORE and UPPER_TO_LOWER sections is in the file
\* save_caps_data_file writes, unchanged and in the same relative order, and every line
\* outside the DEFAULT_FILE_DIR section is in the file save_default_directory_to_data_file
\* writes
C6_SaveFrame ==
    [][/\ call'.op = "save_caps_data_file" =>
             IsSubsequence(KeptLines(readlines(data_file), 0, "None", {"ignore", "lowercase"}),
                           readlines(data_file'))
       /\ call'.op = "save_default_directory_to_data_file" =>
             IsSubsequence(KeptLines(readlines(data_file), 0, "None", {"default_dir"}),
                           readlines(data_file'))]_vars

\* what load_data_file yields for the file content
Loaded(content) == load_data_file(BookfixContext, content)

\* C13: after save_caps_data_file(I, L) a load yields ignore_set = I and lowercase_set = L, and
\* the same choices, replacements, periods, roman_ignore_set and default directory as a load
\* made just before the save
C13_RoundTrip ==
    [][call'.op = "save_caps_data_file" =>
          /\ Loaded(data_file').ignore_set = call'.arg[1]
          /\ Loaded(data_file').lowercase_set = call'.arg[2]
          /\ Loaded(data_file').choices = Loaded(data_file).choices
          /\ Loaded(data_file').replacements = Loaded(data_file).replacements
          /\ Loaded(data_file').periods = Loaded(data_file).periods
          /\ Loaded(data_file').roman_ignore_set = Loaded(data_file).roman_ignore_set
          /\ Loaded(data_file').default_file_directory = Loaded(data_file).default_file_directory]_vars

RECURSIVE LoadRaises(_, _, _, _)
\* the parsing loop of the loader raises at or after line i
LoadRaises(lines, i, section, dir_set) ==
    IF i >= Len(lines) THEN FALSE
    ELSE LET stripped == strip_zw(lines[i + 1])
         IN  IF IsMarkerLine(stripped)
             THEN LoadRaises(lines, i + 1, LoadSectionName(stripped[1]), dir_set)
             ELSE IF section = "default_dir" /\ stripped # <<>> /\ Head(stripped) # "#" /\ ~dir_set
                  THEN \/ stripped \in RaisingDirs
                       \/ LoadRaises(lines, i + 1, section, stripped \in ExistingDirs)
                  ELSE LoadRaises(lines, i + 1, section, dir_set)

\* the load of the file fails: there is nothing to read, or the parsing raises
LoadFails == data_file = <<>> \/ LoadRaises(readlines(data_file), 0, "None", FALSE)

\* C14: a load that fails yields a context whose choices, replacements, periods, ignore_set,
\* lowercase_set and roman_ignore_set are empty and whose default directory is unset,
\* whatever the context held before the call
C14_LoadFailure ==
    LoadFails =>
        LET c == load_data_file(ctx, data_file)
        IN  /\ c.choices = <<>> /\ c.replacements = <<>> /\ c.periods = {}
            /\ c.ignore_set = {} /\ c.lowercase_set = {} /\ c.roman_ignore_set = {}
            /\ c.default_file_directory = None

----------------------------------------------------------------------------
(* The main window: any sequence of the user's actions and the worker's steps *)

GuiChecked ==
    {{"interactive_choices", "all_caps_processing"}, {"convert_lowercase", "interactive_choices"}}

\* a -> b
GuiFile == <<"# CHOICE", "\n", "a", "->", "b", "\n">>

InitGui ==
    \E checked \in GuiChecked : InitFrom(Constructed(GuiFile, checked))

NextGui ==
    \/ LoadFile
    \/ StartProcessing
    \/ ThreadPipeline
    \/ ThreadPreApply
    \/ ThreadEmit
    \/ OnProcessingComplete
    \/ HandleChoiceSelection
    \/ HandleSkipChoice
    \/ HandleCapsSelection
    \/ HandleSkipCaps
    \/ HandlePrevious

SpecGui == InitGui /\ [][NextGui]_vars

\* a ProcessingThread has been started and has not emitted processing_complete yet
WorkerActive == \E t \in 1..Len(window.threads) : window.threads[t].pc # "finished"

\* the choice engine has started a pass and has words left
ChoiceActive == choice_processor.processed_words < choice_processor.total_words

\* the all-caps engine has started a pass and has a sequence left
CapsActive ==
    caps_processor.current_match_index < Len(caps_processor.all_caps_matches_original)

\* C7: at most one of the pipeline worker, the choice engine and the all-caps engine is
\* active on the context text
C7_SingleMutator ==
    Cardinality({b \in {<<"worker", WorkerActive>>, <<"choice", ChoiceActive>>,
                        <<"caps", CapsActive>>} : b[2]}) <= 1


\* the snapshot indices behind the sequence the last call started from that are neither
\* ignored nor decided now
Promptable ==
    {k \in (PreCaps.current_match_index + 2)..Len(caps_processor.all_caps_matches_original) :
        /\ caps_processor.all_caps_matches_original[k].text \notin ctx.ignore_set
        /\ caps_processor.all_caps_matches_original[k].text
               \notin caps_processor.decided_sequences_text}

\* the engine awaits a decision on the first promptable sequence, if there is one
AdvancedToNext ==
    /\ caps_processor.all_caps_matches_original = PreCaps.all_caps_matches_original
    /\ Promptable # {} =>
          LET k == CHOOSE k \in Promptable : \A j \in Promptable : k <= j
          IN  /\ caps_processor.current_match_index = k - 1
              /\ caps_processor.current_caps_sequence =
                     caps_processor.all_caps_matches_original[k].text
              /\ caps_processor.current_caps_span =
                     caps_processor.all_caps_matches_original[k].span
              /\ shown = Append(call.pre.shown,
                                [item |-> caps_processor.all_caps_matches_original[k].text,
                                 span |-> caps_processor.all_caps_matches_original[k].span])
    /\ Promptable = {} =>
          /\ caps_processor.current_match_index >= Len(caps_processor.all_caps_matches_original)
          /\ shown = call.pre.shown

\* C16: 'No' and 'Add to Ignore' leave the live text alone; 'No' also leaves ignore_set,
\* lowercase_set and the configuration file alone; 'Add to Ignore' adds the current sequence
\* to ignore_set and nothing else and leaves lowercase_set alone; both record the sequence in
\* decided_sequences_text and advance to the next promptable sequence
C16_NoAndIgnore ==
    /\ IsCapsCall("n") =>
          /\ ctx.text = call.pre.text
          /\ ctx.ignore_set = call.pre.ignore_set
          /\ ctx.lowercase_set = call.pre.lowercase_set
          /\ data_file = call.pre.file
          /\ caps_processor.decided_sequences_text = PreCaps.decided_sequences_text \cup {PreSeq}
          /\ AdvancedToNext
    /\ IsCapsCall("a") =>
          /\ ctx.text = call.pre.text
          /\ ctx.ignore_set = call.pre.ignore_set \cup {PreSeq}
          /\ ctx.lowercase_set = call.pre.lowercase_set
          /\ caps_processor.decided_sequences_text = PreCaps.decided_sequences_text \cup {PreSeq}
          /\ AdvancedToNext

\* 'No' for a sequence that the snapshot holds again, with another sequence behind both
C16_WitnessNo ==
    /\ IsCapsCall("n")
    /\ Cardinality(SnapshotSpans(PreSeq)) >= 2
    /\ Promptable # {}
    /\ caps_processor.current_match_index > PreCaps.current_match_index + 1

----------------------------------------------------------------------------
(* The two interactive passes in a row: the all-caps pass starts from the text the choices
   pass left *)

MaxPassLen == 4        \* longest document of the two passes drawn from PassAlphabet

PassAlphabet == {"A", "b", " "}
PassLongDocs == {<<"A", " ", "b", " ", "A">>}
PassDocs == (SeqsUpTo(PassAlphabet, MaxPassLen) \ {<<>>}) \cup PassLongDocs

\* CHOICE: b -> A;b; UPPER_TO_LOWER: A A
PassFile ==
    <<"# CHOICE", "\n", "b", "->", "A", ";", "b", "\n",
      "# UPPER_TO_LOWER", "\n", "A", " ", "A", "\n">>

InitPass ==
    \E doc \in PassDocs : \E order \in Orders(load_data_file(BookfixContext, PassFile).lowercase_set) :
        InitFrom(Launched(PassFile, doc, {"interactive_choices", "all_caps_processing"}, order))

NextPass ==
    OnProcessingComplete \/ HandleChoiceSelection \/ HandleSkipChoice \/ HandleCapsSelection

SpecPass == InitPass /\ [][NextPass]_vars

\* the all-caps pass has started
InCapsPass == window.current_interactive_step = "all_caps_processing"

\* the all-caps pass has started and no disposition has been delivered to it
BeforeFirstDecision == InCapsPass /\ call.op # "handle_caps_choice"

\* the detected list is what the sequence pattern finds in the text the pass started from
DetectedOnEntry ==
    InCapsPass =>
        caps_processor.all_caps_matches_original = finditer_caps(caps_processor.current_text)

\* every whole-word occurrence of a lowercase_set member in the text the pass started from
\* holds the member's lowercase form
PrePassLowercased ==
    BeforeFirstDecision =>
        /\ Len(ctx.text) = Len(caps_processor.current_text)
        /\ \A m \in ctx.lowercase_set :
              \A i \in Occurrences(caps_processor.current_text, m) :
                  SubSeq(ctx.text, i + 1, i + Len(m)) = LowerStr(m)

\* the prompts of the pass are for snapshot spans, later ones further right
PresentedInOrder ==
    InCapsPass =>
        /\ \A i \in 1..Len(shown) : shown[i].span \in SnapshotSpans(shown[i].item)
        /\ \A i, j \in 1..Len(shown) : i < j => shown[i].span[1] < shown[j].span[1]

\* C17: the all-caps pass detects its sequences in the text as it is on entry, before the
\* pre-pass; before the first prompt every whole-word occurrence of every lowercase_set member
\* is lowercased in ctx.text; the detected list is not recomputed from the live text during the
\* pass; the sequences are presented in strictly increasing order of their snapshot start
C17_SnapshotAndPrePass ==
    /\ DetectedOnEntry
    /\ PrePassLowercased
    /\ PresentedInOrder

----------------------------------------------------------------------------
(* The worker: one run of ProcessingThread on a loaded document *)

MaxPipeLen == 3        \* longest document of the worker drawn from PipeAlphabet

PipeAlphabet == {"V", "a", "1", "\n", " "}
\* a page number, a numeral behind a blank line, a numeral in front of a full stop
PipeLongDocs == {<<"1", "\n", "a", " ", "I", "V", "\n", "\n", "X", "I", ".">>}
PipeDocs == (SeqsUpTo(PipeAlphabet, MaxPipeLen) \ {<<>>}) \cup PipeLongDocs

\* REPLACE: a -> V; PERIODS: V; ROMAN_IGNORE: iv
PipeFile ==
    <<"# REPLACE", "\n", "a", "->", "V", "\n", "# PERIODS", "\n", "V", "\n",
      "# ROMAN_IGNORE", "\n", "i", "v", "\n">>

\* the checked steps: any of the non-interactive ones, alone or with the interactive ones
PipeChecked ==
    {S \cup I : S \in SUBSET {"automatic_replacements", "insert_periods", "remove_pagination",
                              "roman_numerals", "convert_lowercase", "remove_blank_lines"},
                I \in {{}, {"interactive_choices", "all_caps_processing", "numbered_line_edit"}}}

InitPipe ==
    \E doc \in PipeDocs : \E checked \in PipeChecked :
        InitFrom(start_processing(load_file(Constructed(PipeFile, checked), doc, <<"f", ".txt">>)))

NextPipe == ThreadPipeline \/ ThreadPreApply \/ ThreadEmit

SpecPipe == InitPipe /\ [][NextPipe]_vars

\* the context after the enabled ones of the six steps, each applied to what the one before left
InCanonicalOrder(c, E, order) ==
    LET s1 == IF "automatic_replacements" \in E THEN apply_automatic_replacements(c) ELSE c
        s2 == IF "insert_periods" \in E THEN insert_periods_into_abbreviations(s1, order) ELSE s1
        s3 == IF "remove_pagination" \in E THEN remove_pagination(s2) ELSE s2
        s4 == IF "roman_numerals" \in E THEN convert_roman_numerals(s3) ELSE s3
        s5 == IF "convert_lowercase" \in E THEN convert_to_lowercase(s4) ELSE s4
    IN  IF "remove_blank_lines" \in E THEN remove_blank_lines(s5) ELSE s5

\* C15: the pipeline applies the enabled non-interactive steps in the order
\* automatic_replacements, insert_periods, remove_pagination, roman_numerals,
\* convert_lowercase, remove_blank_lines, each on the text the previous one produced; a step
\* that is not enabled changes nothing, and the interactive steps are not executed
C15_PipelineOrder ==
    [][\A t \in 1..Len(window.threads) :
          (window.threads[t].pc = "pipeline" /\ window'.threads[t].pc = "pre_apply") =>
              LET E == window.threads[t].enabled_steps IN
              /\ \E order \in Orders(ctx.periods) : ctx' = InCanonicalOrder(ctx, E, order)
              /\ \A k \in 1..Len(ctx'.processing_log) :
                    ctx'.processing_log[k] \notin
                        {"interactive_choices", "all_caps_processing", "numbered_line_edit"}
              /\ E \cap {"automatic_replacements", "insert_periods", "remove_pagination",
                          "roman_numerals", "convert_lowercase", "remove_blank_lines"} = {}
                    => ctx' = ctx]_vars

\* all six steps ran on the long document: the page number and the blank line are gone, the
\* replaced a is a numeral with a full stop, XI was left alone, IV is ignored
C15_Witness ==
    /\ \E t \in 1..Len(window.threads) : window.threads[t].pc = "pre_apply"
    /\ Len(ctx.processing_log) = 6
    /\ ctx.text = <<"v", ".", " ", "i", "v", "\n", "x", "i", ".">>

----------------------------------------------------------------------------
(* The numbered-line pass: one run with only "Numbered line editing" checked *)

MaxNumLines == 3       \* most lines of a document of the numbered-line pass

NumLines == {<<"1", "1", "1">>, <<"a">>, <<" ", "1", "1", "1", "1">>}
\* up to MaxNumLines lines, and one document that ends in a line end
NumDocs ==
    {join_lines(ls) : ls \in SeqsUpTo(NumLines, MaxNumLines) \ {<<>>}}
        \cup {<<"1", "1", "1", "\n">>}

InitNumbered ==
    \E doc \in NumDocs : InitFrom(Launched(ChoiceFileEmpty, doc, {"numbered_line_edit"}, <<>>))

NextNumbered ==
    OnProcessingComplete \/ HandleNumberedApply \/ HandleNumberedSkip \/ HandleNumberedPrevious

SpecNumbered == InitNumbered /\ [][NextNumbered]_vars

----------------------------------------------------------------------------
(* Properties of the numbered-line pass *)

\* the entry of numbered_lines the call started from
CurrentEntry == numbered_processor.numbered_lines[numbered_processor.current_numbered_idx + 1]

\* C18: save_and_next stores an edit for the current line only if the trimmed edited text
\* differs from the trimmed original line (and then under the line's number, trimmed);
\* go_next and go_previous leave the stored edits as they are
C18_EditsKept ==
    [][/\ call'.op = "save_and_next" =>
              numbered_processor'.numbered_edits =
                  IF strip(call'.arg) # strip(CurrentEntry.line)
                  THEN {e \in numbered_processor.numbered_edits : e.lineno # CurrentEntry.lineno}
                           \cup {[lineno |-> CurrentEntry.lineno, text |-> strip(call'.arg)]}
                  ELSE numbered_processor.numbered_edits
       /\ call'.op \in {"go_next", "go_previous"} =>
              numbered_processor'.numbered_edits = numbered_processor.numbered_edits]_vars

\* Previous has led back to a line whose edit is stored, with a later line edited as well
C18_Witness ==
    /\ call.op = "go_previous"
    /\ window.current_interactive_step = "numbered_line_edit"
    /\ \E e \in numbered_processor.numbered_edits : e.lineno = CurrentEntry.lineno
    /\ \E e \in numbered_processor.numbered_edits : e.lineno > CurrentEntry.lineno

\* the step in which the numbered-line pass completes
NumberedCompletes ==
    /\ window.current_interactive_step = "numbered_line_edit"
    /\ window'.current_interactive_step # "numbered_line_edit"

\* line number n (0-based) has a stored edit
HasEdit(edits, n) == \E e \in edits : e.lineno = n

\* the lines of the document before the pass, the edited ones replaced by their stored text
WithStoredText(lines, edits) ==
    [i \in 1..Len(lines) |->
        IF HasEdit(edits, i - 1) THEN (CHOOSE e \in edits : e.lineno = i - 1).text ELSE lines[i]]

\* C19: when the numbered-line pass completes, the lines that have a stored edit are replaced
\* by the stored text, every other line of the document is unchanged and keeps its position,
\* and without a stored edit the text is what it was; no step before completion changes the text
C19_EditsApplied ==
    [][LET edits == numbered_processor'.numbered_edits
           before == splitlines(ctx.text)
           after == splitlines(ctx'.text)
       IN  /\ NumberedCompletes =>
                 /\ edits = {} => ctx'.text = ctx.text
                 /\ edits # {} => ctx'.text = join_lines(WithStoredText(before, edits))
                 /\ \A i \in 1..Len(before) :
                       ~HasEdit(edits, i - 1) => i <= Len(after) /\ after[i] = before[i]
           /\ ~NumberedCompletes => ctx'.text = ctx.text]_vars

----------------------------------------------------------------------------
(* roman_to_arabic on the strings over the Roman letters *)

MaxRomanLen == 4       \* longest string of Roman capitals roman_to_arabic is applied to
MaxMixedLen == 2       \* longest string of Roman letters of either case

RomanCapitals == {"I", "V", "X", "L", "C", "D", "M"}
RomanStrings ==
    SeqsUpTo(RomanCapitals, MaxRomanLen)
        \cup SeqsUpTo(RomanCapitals \cup {Lower(c) : c \in RomanCapitals}, MaxMixedLen)
        \cup {<<"A", "B", "C">>, <<"M", "M", "M", "M", "I">>,
              <<"M", "M", "M", "C", "M", "X", "C", "I", "X">>,
              <<"m", "c", "d", "x", "l", "i", "v">>}

\* the string is the loaded document
InitRoman ==
    \E S \in RomanStrings :
        InitFrom(load_file(Constructed(ChoiceFileEmpty, {}), S, <<"f", ".txt">>))

\* roman_to_arabic is called with the string; hist holds what it returns
RomanToArabic ==
    /\ call.op = "none"
    /\ Set(W)
    /\ call' = [NoCall EXCEPT !.op = "roman_to_arabic", !.arg = ctx.text,
                              !.hist = <<roman_to_arabic(ctx.text)>>]

NextRoman == RomanToArabic

SpecRoman == InitRoman /\ [][NextRoman]_vars

\* the additive and subtractive symbols of standard notation, largest first
NumeralSymbols ==
    <<[value |-> 1000, symbol |-> <<"M">>], [value |-> 900, symbol |-> <<"C", "M">>],
      [value |-> 500, symbol |-> <<"D">>], [value |-> 400, symbol |-> <<"C", "D">>],
      [value |-> 100, symbol |-> <<"C">>], [value |-> 90, symbol |-> <<"X", "C">>],
      [value |-> 50, symbol |-> <<"L">>], [value |-> 40, symbol |-> <<"X", "L">>],
      [value |-> 10, symbol |-> <<"X">>], [value |-> 9, symbol |-> <<"I", "X">>],
      [value |-> 5, symbol |-> <<"V">>], [value |-> 4, symbol |-> <<"I", "V">>],
      [value |-> 1, symbol |-> <<"I">>]>>

RECURSIVE Numeral(_, _)
\* the standard numeral of n, written with the symbols from the k-th on
Numeral(n, k) ==
    IF n = 0 THEN <<>>
    ELSE IF NumeralSymbols[k].value <= n
         THEN NumeralSymbols[k].symbol \o Numeral(n - NumeralSymbols[k].value, k)
         ELSE Numeral(n, k + 1)

\* the canonical subtractive-notation numerals of 1..3999
StandardNumerals == [n \in 1..3999 |-> Numeral(n, 1)]

\* C20: for a string over the Roman letters, roman_to_arabic returns the standard value when
\* the upper-cased string is the canonical numeral of a value in 1..3999 other than "I", and
\* 'not a numeral' for "I" and for every other string; it raises nothing
C20_RomanToArabic ==
    call.op = "roman_to_arabic" =>
        LET S == UpperStr(call.arg)
            V == {n \in 1..3999 : StandardNumerals[n] = S}
        IN  /\ ~call.raised
            /\ call.hist = <<IF V # {} /\ S # <<"I">> THEN CHOOSE n \in V : TRUE
                             ELSE NotANumeral>>

----------------------------------------------------------------------------
(* The worker with only "Convert Roman numerals" checked *)

MaxNumeralDocLen == 4  \* longest document of the Roman-numeral step drawn from NumeralAlphabet

NumeralAlphabet == {"I", "V", "X", ".", "a", " "}
\* an ignored numeral, a numeral and a lone I; numerals next to a full stop and an ampersand
NumeralLongDocs ==
    {<<"I", "V", " ", "X", " ", "I">>,
     <<"X", "I", ".", " ", "a", "&", "V", " ", "V", "I">>}
NumeralDocs == (SeqsUpTo(NumeralAlphabet, MaxNumeralDocLen) \ {<<>>}) \cup NumeralLongDocs

\* ROMAN_IGNORE: IV
NumeralFile == <<"# ROMAN_IGNORE", "\n", "I", "V", "\n">>

InitNumeral ==
    \E doc \in NumeralDocs :
        InitFrom(start_processing(
                     load_file(Constructed(NumeralFile, {"roman_numerals"}), doc, <<"f", ".txt">>)))

NextNumeral == ThreadPipeline \/ ThreadPreApply \/ ThreadEmit

SpecNumeral == InitNumeral /\ [][NextNumeral]_vars

\* a character next to which a numeral is taken for part of an abbreviation
Abbreviating(c) ==
    \/ \E k \in 1..Len(UpperLetters) : c = UpperLetters[k] \/ c = LowerLetters[k]
    \/ c \in {"&", ".", "-", "+", ":", ";", "/"}

\* t[s, e) is a candidate token: a whole word of Roman capitals other than a lone I with no
\* abbreviating character next to it
CandidateAt(t, s, e) ==
    /\ 0 <= s /\ s < e /\ e <= Len(t)
    /\ \A k \in (s + 1)..e : t[k] \in RomanCapitals
    /\ s = 0 \/ ~IsWordChar(t[s])
    /\ e = Len(t) \/ ~IsWordChar(t[e + 1])
    /\ Slice(t, s, e) # <<"I">>
    /\ s > 0 => ~Abbreviating(t[s])
    /\ e < Len(t) => ~Abbreviating(t[e + 1])

\* what becomes of a candidate token
TokenConverted(token, ignore) ==
    IF UpperStr(token) \in ignore THEN token
    ELSE IF roman_to_arabic(token) > 0 THEN str_int(roman_to_arabic(token))
    ELSE token

RECURSIVE CandidatesConverted(_, _, _)
\* t from offset p on, each candidate token converted and every other character kept
CandidatesConverted(t, p, ignore) ==
    IF p >= Len(t) THEN <<>>
    ELSE IF \E e \in (p + 1)..Len(t) : CandidateAt(t, p, e)
         THEN LET e == CHOOSE e \in (p + 1)..Len(t) : CandidateAt(t, p, e)
              IN  TokenConverted(Slice(t, p, e), ignore) \o CandidatesConverted(t, e, ignore)
         ELSE <<t[p + 1]>> \o CandidatesConverted(t, p + 1, ignore)

\* C21: convert_roman_numerals leaves a candidate token whose upper case is in
\* roman_ignore_set unchanged, replaces any other candidate by its decimal string when
\* roman_to_arabic yields a positive integer and leaves it unchanged otherwise; the text
\* outside candidate tokens stays as it is, and a lone I or a token next to a letter or one
\* of & . - + : ; / is no candidate
C21_RomanConversion ==
    [][\A t \in 1..Len(window.threads) :
          (window.threads[t].pc = "pipeline" /\ window'.threads[t].pc = "pre_apply") =>
              ctx'.text = CandidatesConverted(ctx.text, 0, ctx.roman_ignore_set)]_vars

\* the step has run on the first long document: IV is ignored, X is converted, I is left
C21_Witness ==
    /\ \E t \in 1..Len(window.threads) : window.threads[t].pc = "pre_apply"
    /\ ctx.processing_log = <<"roman_numerals">>
    /\ ctx.text = <<"I", "V", " ", "1", "0", " ", "I">>

----------------------------------------------------------------------------
(* The worker on documents of every kind of file: what a run leaves in processing_log *)

\* a page number in front of a line, a paragraph of markup that holds a page number
LogDocs ==
    {<<"1", "\n", "a">>, <<"<", "p", ">", "1", "<", "/", "p", ">">>, <<"a", " ", "V">>,
     <<"1", "\n", "C", "h", "a", "p", "t", "e", "r", " ", "O", "n", "e", "\n", "2", "\n">>}
\* the files the open dialog offers: *.txt, *.html, *.xhtml, and any other through "All files"
LogPaths == {<<"f", ".txt">>, <<"f", ".html">>, <<"f", ".xhtml">>, <<"f", ".md">>}

InitLog ==
    \E doc \in LogDocs : \E path \in LogPaths : \E checked \in PipeChecked :
        InitFrom(start_processing(load_file(Constructed(PipeFile, checked), doc, path)))

NextLog == ThreadPipeline \/ ThreadPreApply \/ ThreadEmit

SpecLog == InitLog /\ [][NextLog]_vars

\* the canonical order of the non-interactive steps
CanonicalSteps ==
    <<"automatic_replacements", "insert_periods", "remove_pagination", "roman_numerals",
      "convert_lowercase", "remove_blank_lines">>

\* the enabled ones of the canonical steps, in canonical order
EnabledNames(E) == SelectSeq(CanonicalSteps, LAMBDA name : name \in E)

\* C22: every non-interactive step that runs appends exactly one entry to processing_log,
\* also when it found nothing to change, and no step removes or modifies an entry: after the
\* pipeline ran, the log is the log before followed by the names of the enabled steps in
\* canonical order
C22_OneEntryPerStep ==
    [][/\ Len(ctx'.processing_log) >= Len(ctx.processing_log)
       /\ SubSeq(ctx'.processing_log, 1, Len(ctx.processing_log)) = ctx.processing_log
       /\ \A t \in 1..Len(window.threads) :
             (window.threads[t].pc = "pipeline" /\ window'.threads[t].pc = "pre_apply") =>
                 ctx'.processing_log =
                     ctx.processing_log \o
                     EnabledNames(window.threads[t].enabled_steps)]_vars

----------------------------------------------------------------------------
(* The worker with REPLACE rules of every kind: good, failing to compile, failing to substitute *)

MaxRules == 3          \* most REPLACE rules of a configuration file
MaxRuleDocLen == 3     \* longest document the rules are applied to

\* a good rule, a pattern that does not compile, a template with an invalid group reference,
\* a template that names an unknown group, a good rule on what the first one produces
RulePool ==
    {[word |-> <<"a">>, options |-> <<"V">>],
     [word |-> <<"(">>, options |-> <<"b">>],
     [word |-> <<"b">>, options |-> <<"\\1">>],
     [word |-> <<"V", "V">>, options |-> <<"\\g<x>">>],
     [word |-> <<"V">>, options |-> <<"b", "b">>]}

RuleLists ==
    UNION {Orders(S) : S \in {T \in SUBSET RulePool : Cardinality(T) \in 1..MaxRules}}

RECURSIVE RuleLines(_)
\* the lines of the REPLACE section for a list of rules
RuleLines(rules) ==
    IF rules = <<>> THEN <<>>
    ELSE Head(rules).word \o <<"->">> \o Head(rules).options \o <<"\n">> \o RuleLines(Tail(rules))

RuleFile(rules) == <<"# REPLACE", "\n">> \o RuleLines(rules)

RuleDocs == SeqsUpTo({"a", "b", "V"}, MaxRuleDocLen) \ {<<>>}

InitRules ==
    \E rules \in RuleLists : \E doc \in RuleDocs :
        InitFrom(start_processing(load_file(Constructed(RuleFile(rules), {"automatic_replacements"}),
                                            doc, <<"f", ".txt">>)))

NextRules == ThreadPipeline \/ ThreadPreApply \/ ThreadEmit \/ ThreadExcept \/ OnProcessingError

SpecRules == InitRules /\ [][NextRules]_vars

\* a rule whose pattern does not compile or whose substitution fails
BadRule(rule) == BadPattern(rule.word) \/ TemplateError(rule.options) # "None"

RECURSIVE GoodRulesApplied(_, _)
\* the text and the number of replacements when only the rules that are not bad are applied,
\* each to what the one before left
GoodRulesApplied(r, rules) ==
    IF rules = <<>> THEN r
    ELSE LET found == ScanLiteral(r.text, Head(rules).word, 0)
         IN  GoodRulesApplied(
                 IF BadRule(Head(rules)) THEN r
                 ELSE [text |-> ReplaceSpans(r.text, found, 0, Head(rules).options),
                       replacement_count |-> r.replacement_count + Len(found)],
                 Tail(rules))

\* C23: in apply_automatic_replacements a rule whose pattern fails to compile or whose
\* substitution fails leaves the text as it was before that rule, adds nothing to the
\* replacement count and does not keep the remaining rules from being applied; the step
\* does not raise because of a bad rule and still logs its entry
C23_BadRuleIsolated ==
    [][\A t \in 1..Len(window.threads) :
          (window.threads[t].pc = "pipeline" /\ window'.threads[t].pc # "pipeline"
           /\ window.threads[t].enabled_steps = {"automatic_replacements"}) =>
              LET expected == GoodRulesApplied([text |-> ctx.text, replacement_count |-> 0],
                                               ctx.replacements)
                  outcome == run_rules(ctx.text, ctx.replacements, 0)
              IN  /\ ctx'.text = expected.text
                  /\ outcome.replacement_count = expected.replacement_count
                  /\ window'.threads[t].pc = "pre_apply"
                  /\ ctx'.processing_log = Append(ctx.processing_log, "automatic_replacements")]_vars

----------------------------------------------------------------------------
(* The loader on files with malformed, blank and comment lines *)

MaxLoadLines == 4      \* most lines of a configuration file drawn from LoadLines

\* two markers, rules, lines with no '->' and with two, a comment, a blank line
LoadLines ==
    {<<"# CHOICE", "\n">>, <<"# REPLACE", "\n">>, <<"# PERIODS", "\n">>,
     <<"a", "->", "b", ";", "c", "\n">>, <<"b", "->", "a", "\n">>,
     <<"a", "->", "b", "->", "c", "\n">>, <<"a", " ", "b", "\n">>,
     <<"#", "a", "->", "b", "\n">>, <<" ", "\n">>}

\* a malformed line between two rules behind content that precedes every marker
LoadLongFiles ==
    {<<<<"a", "->", "b", "\n">>, <<"# CHOICE", "\n">>, <<"a", "->", "b", ";", "c", "\n">>,
       <<"a", "->", "b", "->", "c", "\n">>, <<"b", "->", "a", "\n">>, <<"# REPLACE", "\n">>,
       <<"a", " ", "b", "\n">>, <<"b", "->", "a", "\n">>>>}

\* the window in __init__ in front of load_configuration, the file on disk
InitLoad ==
    \E lines \in SeqsUpTo(LoadLines, MaxLoadLines) \cup LoadLongFiles :
        InitFrom([ctx |-> BookfixContext, cp |-> NewChoiceProcessor, caps |-> NewCapsProcessor,
                  num |-> NewNumberedProcessor, file |-> writelines(lines), debug |-> <<>>,
                  win |-> NewWindow({}), shown |-> <<>>, ret |-> "None", raised |-> FALSE])

NextLoad == LoadConfiguration

SpecLoad == InitLoad /\ [][NextLoad]_vars

\* the number of '->' in a line
Arrows(line) == Cardinality({k \in 1..Len(line) : line[k] = "->"})

RECURSIVE LoadedLines(_, _, _)
\* the lines the loader is said to act on: the section markers, and the content lines behind
\* a marker that are not blank, are no comment and, in CHOICE and REPLACE, hold one '->'
LoadedLines(lines, i, section) ==
    IF i > Len(lines) THEN <<>>
    ELSE LET stripped == strip_zw(lines[i])
         IN  IF IsMarkerLine(stripped)
             THEN <<lines[i]>> \o LoadedLines(lines, i + 1, stripped[1])
             ELSE IF \/ section = "None"
                     \/ stripped = <<>>
                     \/ Head(stripped) = "#"
                     \/ (section \in {CHOICE_SECTION_MARKER, REPLACE_SECTION_MARKER}
                         /\ Arrows(stripped) # 1)
                  THEN LoadedLines(lines, i + 1, section)
                  ELSE <<lines[i]>> \o LoadedLines(lines, i + 1, section)

\* C24: a CHOICE or REPLACE content line that does not hold exactly one '->' adds no rule and
\* does not stop the load: the well-formed lines before and after it, in every section, are
\* loaded as if it were absent; blank lines, '#' lines that are no section marker and content
\* lines in front of the first marker are ignored
C24_MalformedSkipped ==
    call.op = "load_configuration" =>
        LET lines == readlines(data_file)
        IN  /\ ctx = load_data_file(BookfixContext, writelines(LoadedLines(lines, 1, "None")))
            /\ Len(ctx.choices) <= Cardinality({i \in 1..Len(lines) : Arrows(lines[i]) = 1})
            /\ Len(ctx.replacements) <= Cardinality({i \in 1..Len(lines) : Arrows(lines[i]) = 1})

\* the long file was loaded: both CHOICE rules around the malformed line and the REPLACE rule
\* behind the line without '->' are there, the line in front of the first marker is not
C24_Witness ==
    /\ call.op = "load_configuration"
    /\ Len(readlines(data_file)) = 8
    /\ ctx.choices = <<[word |-> <<"a">>, options |-> <<<<"b">>, <<"c">>>>],
                       [word |-> <<"b">>, options |-> <<<<"a">>>>]>>
    /\ ctx.replacements = <<[word |-> <<"b">>, options |-> <<"a">>]>>

----------------------------------------------------------------------------
(* remove_pagination on the kinds of file of SpecLog *)

\* the trimmed content of the line is digits only
DigitsOnly(line) ==
    LET trimmed == strip(line)
    IN  trimmed # <<>> /\ \A k \in 1..Len(trimmed) : IsDigit(trimmed[k])

\* the lines of a text without the lines of digits only, in order (a text is read as its
\* lines joined by line ends, with or without a line end behind the last one)
WithoutDigitLines(t) == SelectSeq(splitlines(t), LAMBDA line : ~DigitsOnly(line))

\* the file path ends in .txt, is empty, or has an extension other than .html and .xhtml
LineOriented(path) ==
    path = None \/ path = <<>> \/ path[Len(path)] \notin {".html", ".xhtml"}

\* C25: remove_pagination on a context whose file path ends in .txt, is empty, or has any
\* extension other than .html/.xhtml drops every line whose trimmed content is digits only
\* and keeps every other line unchanged and in order
C25_DigitLinesDropped ==
    [][\A t \in 1..Len(window.threads) :
          (window.threads[t].pc = "pipeline" /\ window'.threads[t].pc = "pre_apply"
           /\ window.threads[t].enabled_steps = {"remove_pagination"}
           /\ LineOriented(ctx.filepath)) =>
              splitlines(ctx'.text) = splitlines(join_lines(WithoutDigitLines(ctx.text)))]_vars

\* C26: pagination removal on the .txt input "1\nChapter One\n2\n" yields exactly
\* "Chapter One\n", the surviving line with its line end, and the pagination log records two
\* removed lines
C26_ChapterOne ==
    [][\A t \in 1..Len(window.threads) :
          (window.threads[t].pc = "pipeline" /\ window'.threads[t].pc = "pre_apply"
           /\ window.threads[t].enabled_steps = {"remove_pagination"}
           /\ ctx.filepath = <<"f", ".txt">>
           /\ ctx.text = <<"1", "\n", "C", "h", "a", "p", "t", "e", "r", " ", "O", "n", "e",
                           "\n", "2", "\n">>) =>
              /\ ctx'.text = <<"C", "h", "a", "p", "t", "e", "r", " ", "O", "n", "e", "\n">>
              /\ Len(pagination_log(ctx)) = 2]_vars

----------------------------------------------------------------------------
(* find_numbered_lines: the numbered-line pass is started on documents with digit runs *)

MaxFindLen == 7        \* longest document drawn from FindAlphabet

FindAlphabet == {"1", "a", "\n"}

\* "no numbers here", "see page 1234 now", "another 56 small"
FindExample ==
    <<"n", "o", " ", "n", "u", "m", "b", "e", "r", "s", " ", "h", "e", "r", "e", "\n", "s", "e", "e", " ", "p", "a", "g", "e", " ", "1", "2", "3", "4", " ">> \o
    <<"n", "o", "w", "\n", "a", "n", "o", "t", "h", "e", "r", " ", "5", "6", " ", "s", "m", "a", "l", "l">>

FindDocs == (SeqsUpTo(FindAlphabet, MaxFindLen) \ {<<>>}) \cup {FindExample}

InitFind ==
    \E doc \in FindDocs : InitFrom(Launched(ChoiceFileEmpty, doc, {"numbered_line_edit"}, <<>>))

NextFind == OnProcessingComplete

SpecFind == InitFind /\ [][NextFind]_vars

\* the runs of 3 or more consecutive digits of a line that cannot be extended, as spans
DigitRuns(line) ==
    {<<s, e>> \in (0..Len(line)) \X (0..Len(line)) :
        /\ e - s >= 3
        /\ \A k \in (s + 1)..e : IsDigit(line[k])
        /\ s = 0 \/ ~IsDigit(line[s])
        /\ e = Len(line) \/ ~IsDigit(line[e + 1])}

\* the pass has been started on the document
FindStarted == window.signals = <<>>

\* C27: find_numbered_lines returns exactly the lines that hold a run of 3 or more
\* consecutive digits, each with its 0-based index and the spans of all such runs, in
\* document order; for the lines "no numbers here", "see page 1234 now", "another 56 small"
\* it returns one entry, index 1, with the single span that covers "1234"
C27_FindNumberedLines ==
    FindStarted =>
        LET lines == splitlines(ctx.text)
            found == numbered_processor.numbered_lines
        IN  /\ \A k \in 1..Len(found) :
                  /\ found[k].lineno \in 0..(Len(lines) - 1)
                  /\ found[k].line = lines[found[k].lineno + 1]
                  /\ {found[k].spans[j] : j \in 1..Len(found[k].spans)} = DigitRuns(found[k].line)
                  /\ found[k].spans # <<>>
                  /\ \A i, j \in 1..Len(found[k].spans) :
                        i < j => found[k].spans[i][2] <= found[k].spans[j][1]
            /\ \A i, j \in 1..Len(found) : i < j => found[i].lineno < found[j].lineno
            /\ \A i \in 1..Len(lines) :
                  DigitRuns(lines[i]) # {} => \E k \in 1..Len(found) : found[k].lineno = i - 1
            /\ ctx.text = FindExample =>
                  /\ Len(found) = 1
                  /\ found[1].lineno = 1
                  /\ found[1].spans = <<<<9, 13>>>>
                  /\ SubSeq(found[1].line, 10, 13) = <<"1", "2", "3", "4">>

\* the pass was started on the three lines of the example and shows its second line
C27_Witness ==
    /\ FindStarted
    /\ ctx.text = FindExample
    /\ window.current_interactive_step = "numbered_line_edit"
    /\ Len(numbered_processor.numbered_lines) = 1

----------------------------------------------------------------------------
(* remove_blank_lines run again on what it produced: Start is clicked a second time *)

MaxBlankLen == 5       \* longest document drawn from BlankAlphabet

BlankAlphabet == {"a", " ", "\n"}

BlankDocs == SeqsUpTo(BlankAlphabet, MaxBlankLen) \ {<<>>}

InitBlank ==
    \E doc \in BlankDocs :
        InitFrom(load_file(Constructed(ChoiceFileEmpty, {"remove_blank_lines"}), doc, <<"f", ".txt">>))

NextBlank ==
    StartProcessing \/ ThreadPipeline \/ ThreadPreApply \/ ThreadEmit \/ OnProcessingComplete

SpecBlank == InitBlank /\ [][NextBlank]_vars

\* the worker runs remove_blank_lines on a text that remove_blank_lines produced
OnOwnOutput ==
    /\ ctx.processing_log # <<>>
    /\ \E t \in 1..Len(window.threads) :
          /\ window.threads[t].pc = "pipeline" /\ window'.threads[t].pc = "pre_apply"
          /\ window.threads[t].enabled_steps = {"remove_blank_lines"}

\* C28: remove_blank_lines is idempotent: applied to its own output it returns that output
\* unchanged and reports 0 removed lines
C28_BlankIdempotent ==
    [][OnOwnOutput => ctx'.text = ctx.text /\ removed_lines(ctx) = 0]_vars

\* the second run has gone over the two lines the first run left
C28_Witness ==
    /\ ctx.processing_log = <<"remove_blank_lines", "remove_blank_lines">>
    /\ ctx.text = <<"a", "\n", " ", "a">>
    /\ Len(window.threads) = 2 /\ window.threads[2].pc = "pre_apply"

----------------------------------------------------------------------------
(* The choices pass: which occurrences of a word are presented, and how often *)

\* handle_choice is called on a presented match and finishes the word
FinishesWord ==
    /\ call'.op = "handle_choice" /\ ~call'.raised
    /\ window.current_interactive_step = "interactive_choices"
    /\ choice_processor.current_match < Len(choice_processor.matches)
    /\ choice_processor'.processed_words > choice_processor.processed_words

\* handle_choice is called on a presented match and presents another match of the same word
PresentsNext ==
    /\ call'.op = "handle_choice" /\ ~call'.raised
    /\ window.current_interactive_step = "interactive_choices"
    /\ choice_processor.current_match < Len(choice_processor.matches)
    /\ choice_processor'.processed_words = choice_processor.processed_words
    /\ Len(shown') = Len(shown) + 1

\* the whole-word occurrences of word in t that start at or after offset from
OccurrencesFrom(t, word, from) ==
    {i \in from..Len(t) : WordAt(t, word, i, TRUE)}

\* C29: every whole-word occurrence of a word that is in the text when the word's processing
\* starts is presented once before the word is finished: the word is not finished while an
\* occurrence behind the presented one has had no prompt, whatever the length of the
\* replacement, and a prompt never goes back to an occurrence in front of the presented one
C29_AllPresented ==
    [][LET cp == choice_processor
           m == cp.matches[cp.current_match + 1]
       IN  /\ FinishesWord => OccurrencesFrom(ctx.text, cp.current_word, m[2]) = {}
           /\ PresentsNext =>
                 /\ shown'[Len(shown')].item = cp.current_word
                 /\ shown'[Len(shown')].span[1] >= m[1]]_vars

\* the prompts shown for word so far
Prompts(word) == {i \in 1..Len(shown) : shown[i].item = word}

\* the number of matches found when word started: the status of its first prompt is "1/n"
FoundAtStart(word) == shown[CHOOSE i \in Prompts(word) : \A j \in Prompts(word) : i <= j].of

\* C30: each word is finished after finitely many selections: the number of prompts shown
\* for a word never exceeds the number of matches found when that word started, also when a
\* chosen replacement contains the word
C30_PromptsBounded ==
    window.current_interactive_step = "interactive_choices" =>
        \A k \in 1..Len(ctx.choices) :
            Prompts(ctx.choices[k].word) # {} =>
                Cardinality(Prompts(ctx.choices[k].word)) <= FoundAtStart(ctx.choices[k].word)

----------------------------------------------------------------------------
(* The all-caps pass: the live text against the snapshot taken on entry *)

\* the all-caps pass waits for a decision
CapsSuspended ==
    /\ window.current_interactive_step = "all_caps_processing"
    /\ window.buttons = "caps"
    /\ ~window.crashed

\* C31: at every suspension point of the all-caps pass, for every span in
\* lowercased_original_spans the live text at the span is the lowercase form of the snapshot
\* text at the span, also when an earlier bulk operation on a shorter sequence had lowercased
\* part of it
C31_LowercasedSpans ==
    CapsSuspended =>
        \A span \in caps_processor.lowercased_original_spans :
            Slice(ctx.text, span[1], span[2]) =
                LowerStr(Slice(caps_processor.current_text, span[1], span[2]))

\* the snapshot spans of the sequences answered 'No' or 'Add to Ignore' in this pass: the
\* decided sequences none of whose spans was recorded as lowercased
KeptSpans ==
    {caps_processor.all_caps_matches_original[k].span :
        k \in {j \in 1..Len(caps_processor.all_caps_matches_original) :
                  /\ caps_processor.all_caps_matches_original[j].text
                        \in caps_processor.decided_sequences_text
                  /\ SnapshotSpans(caps_processor.all_caps_matches_original[j].text)
                        \cap caps_processor.lowercased_original_spans = {}}}

\* C32: a sequence answered 'No' or 'Add to Ignore' keeps its snapshot text at its span until
\* the end of the all-caps pass: a later 'Yes' or 'Auto Lowercase' for a different sequence
\* changes no character inside the span
C32_KeptUppercase ==
    [][(call'.op = "handle_caps_choice" /\ call'.arg \in {<<"y">>, <<"i">>}
        /\ window.current_interactive_step = "all_caps_processing") =>
           \A span \in KeptSpans :
               Slice(ctx'.text, span[1], span[2]) = Slice(ctx.text, span[1], span[2])]_vars

----------------------------------------------------------------------------
(* The choices pass: how often it completes *)

\* the number of completion entries of the choices pass in the processing log
ChoiceCompletions ==
    Cardinality({k \in 1..Len(ctx.processing_log) : ctx.processing_log[k] = "interactive_choices"})

\* C33: the choice engine completes exactly once per run: 0 <= processed_words <= total_words
\* in every reachable state, and the completion entry of 'interactive_choices' is appended to
\* the processing log once, whatever handle_choice calls are delivered
C33_CompletesOnce ==
    /\ 0 <= choice_processor.processed_words
    /\ choice_processor.processed_words <= choice_processor.total_words
    /\ ChoiceCompletions <= 1
    /\ (window.checkboxes = {"interactive_choices"} /\ window.save_button_enabled)
          => ChoiceCompletions = 1

----------------------------------------------------------------------------
(* A run from Start Processing to complete_all_processing, with a worker that is
   scheduled, a main thread that delivers queued signals, and a user who answers *)

RunFiles == {ChoiceFileEmpty, GuiFile}

RunDocs == {<<"a", " ", "A", "A">>, <<"c">>, <<"1", "1", "1", " ", "a">>}

RunChecked == SUBSET {"interactive_choices", "all_caps_processing", "numbered_line_edit"}

\* Start Processing was pressed on a loaded document
InitRun ==
    \E f \in RunFiles : \E doc \in RunDocs : \E checked \in RunChecked :
        InitFrom(start_processing(load_file(Constructed(f, checked), doc, <<"f", ".txt">>)))

\* the user answers the prompt on the panel, with one of its buttons or with Skip
UserAnswers ==
    \/ HandleChoiceSelection
    \/ HandleSkipChoice
    \/ HandleCapsSelection
    \/ HandleSkipCaps
    \/ HandleNumberedApply
    \/ HandleNumberedSkip

NextRun ==
    \/ ThreadPipeline
    \/ ThreadPreApply
    \/ ThreadEmit
    \/ OnProcessingComplete
    \/ HandleChoiceSelection
    \/ HandleSkipChoice
    \/ HandleCapsSelection
    \/ HandleSkipCaps
    \/ HandleNumberedApply
    \/ HandleNumberedSkip

\* the panel offers the user something to click: the guards of the actions of UserAnswers
PromptPresented ==
    /\ Alive
    /\ \/ /\ window.buttons = "choices"
          /\ \E i \in 1..Len(window.choice_buttons) : ChoiceFits(window.choice_buttons[i])
       \/ /\ window.panel_visible
          /\ window.current_interactive_step = "interactive_choices"
          /\ ChoiceFits(<<>>)
       \/ window.buttons = "caps"
       \/ /\ window.panel_visible
          /\ window.current_interactive_step = "all_caps_processing"
       \/ window.buttons = "numbered"
       \/ /\ window.panel_visible
          /\ window.current_interactive_step = "numbered_line_edit"

\* the user does not leave a prompt unanswered: weak fairness of UserAnswers, with the
\* guards of its actions written out
UserAnswersEveryPrompt == []<>(~PromptPresented) \/ []<><<UserAnswers>>_vars

\* the event loop delivers every queued signal: weak fairness of OnProcessingComplete,
\* with its guard written out
SignalsDelivered ==
    []<>(~(Alive /\ window.signals # <<>>)) \/ []<><<OnProcessingComplete>>_vars

\* QThread.start schedules run() until it returns
SpecRun ==
    /\ InitRun
    /\ [][NextRun]_vars
    /\ WF_vars(ThreadPipeline)
    /\ WF_vars(ThreadPreApply)
    /\ WF_vars(ThreadEmit)
    /\ SignalsDelivered
    /\ UserAnswersEveryPrompt

\* complete_all_processing has run: the text can be saved and a new run started
RunCompleted ==
    /\ window.save_button_enabled
    /\ window.start_button_enabled

\* C34: a run started with Start Processing eventually reaches complete_all_processing,
\* whatever steps are checked and whatever the configuration and the text are, as long as
\* the worker runs, signals are delivered and the user answers
C34_RunCompletes == <>RunCompleted

\* the run stays in an interactive step whose panel presents nothing to answer
C34_Stuck ==
    /\ window.current_interactive_step = "interactive_choices"
    /\ window.panel_visible
    /\ window.buttons # "choices"
    /\ ~RunCompleted

----------------------------------------------------------------------------
(* The numbered-line pass: what completion will write to a line *)

\* the text the line of entry has once the stored edits are applied
PendingText(edits, entry) ==
    IF HasEdit(edits, entry.lineno)
    THEN (CHOOSE e \in edits : e.lineno = entry.lineno).text
    ELSE entry.line

\* C35: after save_and_next the text that completion writes to the current line is the
\* submitted text (compared trimmed), also when the submitted text is the line's original
\* and an earlier edit of the line is stored; go_next and go_previous leave it as it is
C35_LastSubmitted ==
    [][(window.current_interactive_step = "numbered_line_edit"
            /\ numbered_processor.current_numbered_idx < Len(numbered_processor.numbered_lines)) =>
          /\ call'.op = "save_and_next" =>
                strip(PendingText(numbered_processor'.numbered_edits, CurrentEntry))
                    = strip(call'.arg)
          /\ call'.op \in {"go_next", "go_previous"} =>
                \A k \in 1..Len(numbered_processor.numbered_lines) :
                    PendingText(numbered_processor'.numbered_edits,
                                numbered_processor.numbered_lines[k])
                        = PendingText(numbered_processor.numbered_edits,
                                      numbered_processor.numbered_lines[k])]_vars

----------------------------------------------------------------------------
(* The all-caps pass behind the choices step: the choices put text into the document
   that the worker's pre-application has not seen *)

\* a -> AA;a with AA lowercased automatically
CaseFilePlain ==
    <<"# CHOICE", "\n", "a", "->", "A", "A", ";", "a", "\n",
      "# UPPER_TO_LOWER", "\n", "A", "A", "\n">>
\* a -> U+0130;a with U+0130 lowercased automatically
CaseFileDotted ==
    <<"# CHOICE", "\n", "a", "->", DottedI, ";", "a", "\n",
      "# UPPER_TO_LOWER", "\n", DottedI, "\n">>

CaseDocs ==
    {<<"a", " ", "A", "B">>, <<"A", "B", " ", "a">>, <<"a", ".", "A", "B", ".", "B", "B">>,
     <<"a", " ", "A", "B", " ", "a">>, <<"A", "B", ".", "a", ".", "A", "B">>}

InitCase ==
    \E f \in {CaseFilePlain, CaseFileDotted} : \E doc \in CaseDocs :
        \E order \in Orders(load_data_file(BookfixContext, f).lowercase_set) :
            InitFrom(Launched(f, doc, {"interactive_choices", "all_caps_processing"}, order))

NextCase ==
    \/ OnProcessingComplete
    \/ HandleSkipChoice
    \/ HandleChoiceSelection
    \/ HandleSkipCaps
    \/ HandleCapsSelection

SpecCase == InitCase /\ [][NextCase]_vars

\* C36: while the all-caps pass is the current step the live text is as long as the
\* snapshot taken on entry and differs from it in the case of letters only
C36_SameLength ==
    (window.current_interactive_step = "all_caps_processing" /\ ~window.crashed) =>
        /\ Len(ctx.text) = Len(caps_processor.current_text)
        /\ \A i \in 1..Len(ctx.text) :
              Lower(ctx.text[i]) = Lower(caps_processor.current_text[i])

----------------------------------------------------------------------------
(* Bulk lowercasing and the order in which lowercase_set is iterated *)

\* UPPER_TO_LOWER: BB
OrderFileOne == <<"# UPPER_TO_LOWER", "\n", "B", "B", "\n">>

OrderDocs ==
    {<<"A", "A", " ", "B">>, <<"A", "A", ".", "A", "A", " ", "B">>, <<"B", "B", " ", "A", "A">>,
     <<"A", "A", " ", "B", ".", "B", "B">>, <<"A", "B", ".", "A", "A">>, <<"a", " ", "B", "B">>}

\* Start Processing was pressed with only the all-caps step checked
InitOrder ==
    \E f \in {CapsFileLower, OrderFileOne, ChoiceFileEmpty} : \E doc \in OrderDocs :
        InitFrom(start_processing(
                     load_file(Constructed(f, {"all_caps_processing"}), doc, <<"f", ".txt">>)))

NextOrder ==
    \/ ThreadPipeline
    \/ ThreadPreApply
    \/ ThreadEmit
    \/ OnProcessingComplete
    \/ HandleSkipCaps
    \/ HandleCapsSelection

SpecOrder == InitOrder /\ [][NextOrder]_vars

\* the worker pre-applies lowercase_set in this step
PreApplies ==
    \E t \in 1..Len(window.threads) :
        /\ window.threads[t].pc = "pre_apply"
        /\ window'.threads[t].pc # "pre_apply"
        /\ "all_caps_processing" \in window.threads[t].enabled_steps

\* the all-caps pass starts in this step and runs its pre-pass
PrePasses ==
    /\ window.current_interactive_step # "all_caps_processing"
    /\ window'.current_interactive_step = "all_caps_processing"

\* the user answers a prompt with 'Auto Lowercase' in this step
AutoLowercases ==
    /\ window.current_interactive_step = "all_caps_processing"
    /\ caps_processor.current_caps_sequence # None
    /\ call'.op = "handle_caps_choice"
    /\ call'.arg = <<"i">>

\* C37: the text that the worker's pre-application, the pre-pass and 'Auto Lowercase' produce
\* is the one that every order of iterating lowercase_set produces from the text before
C37_OrderIndependent ==
    [][/\ (PreApplies \/ PrePasses) =>
              \A order \in Orders(ctx.lowercase_set) :
                  ctx'.text = bulk_lowercase(ctx.text, order)
       /\ AutoLowercases =>
              \A order \in Orders(ctx'.lowercase_set) :
                  ctx'.text = bulk_lowercase(ctx.text, order)]_vars

----------------------------------------------------------------------------
(* save_caps_data_file called twice with the same sets *)

\* C38: a call of save_caps_data_file that follows a call with the same two sets leaves
\* the file as the first call left it
C38_SaveTwice ==
    [][(/\ call.op = "save_caps_data_file"
        /\ call'.op = "save_caps_data_file"
        /\ call'.arg = call.arg) => data_file' = data_file]_vars

----------------------------------------------------------------------------
(* The section a save replaces and the section the loader reads *)

RECURSIVE LoaderSections(_, _, _)
\* for every line from index i on, the section the loader reads it in; a marker line
\* counts as "marker"
LoaderSections(lines, i, section) ==
    IF i >= Len(lines) THEN <<>>
    ELSE LET stripped == strip_zw(lines[i + 1])
         IN  IF IsMarkerLine(stripped)
             THEN <<"marker">> \o LoaderSections(lines, i + 1, LoadSectionName(stripped[1]))
             ELSE <<section>> \o LoaderSections(lines, i + 1, section)

\* the lines (numbered from 1) that load_data_file reads as content of the section name
LoaderContent(lines, name) ==
    {i \in 1..Len(lines) : LoaderSections(lines, 0, "None")[i] = name}

\* the lines (numbered from 1) that the rewrite loop of a save routine drops for the section
\* name: from behind the first line that is the marker up to the end that the boundary scan
\* found; zw tells which boundary scan
ReplacedLines(lines, name, marker, zw) ==
    LET indices == section_indices(lines, zw)
        M == {i \in 1..Len(lines) : strip(lines[i]) = <<marker>>}
    IN  IF indices[name] = NoSpan \/ M = {} THEN {}
        ELSE (((CHOOSE i \in M : \A j \in M : i <= j) + 1)..indices[name][2])

\* C39: for each of the three sections a save routine rewrites, the lines it replaces in the
\* file are the lines that load_data_file reads as the content of that section
C39_SameSections ==
    LET lines == readlines(data_file)
    IN  /\ ReplacedLines(lines, "ignore", IGNORE_SECTION_MARKER, TRUE)
               = LoaderContent(lines, "ignore")
        /\ ReplacedLines(lines, "lowercase", LOWERCASE_SECTION_MARKER, TRUE)
               = LoaderContent(lines, "lowercase")
        /\ ReplacedLines(lines, "default_dir", DEFAULT_DIR_SECTION_MARKER, FALSE)
               = LoaderContent(lines, "default_dir")

----------------------------------------------------------------------------
(* The numbered-line pass: the index of the current line *)

\* the numbered-line pass is the current step and has a line to show
NumberedActive(win, num) ==
    /\ win.current_interactive_step = "numbered_line_edit"
    /\ ~win.crashed
    /\ num.numbered_lines # <<>>

IndexInRange(num) ==
    /\ 0 <= num.current_numbered_idx
    /\ num.current_numbered_idx < Len(num.numbered_lines)

\* C40: while the numbered-line pass is active the index of the current line is an index of
\* numbered_lines; go_previous at index 0 changes nothing; the pass ends only with
\* save_and_next or go_next at the last index; and numbered_lines stays as it is
C40_IndexInRange ==
    [][/\ NumberedActive(window', numbered_processor') => IndexInRange(numbered_processor')
       /\ NumberedActive(window, numbered_processor) =>
             /\ numbered_processor'.numbered_lines = numbered_processor.numbered_lines
             /\ numbered_processor.current_numbered_idx = 0 =>
                   go_previous(W) = [W EXCEPT !.ret = "True"]
             /\ ~NumberedActive(window', numbered_processor') =>
                   /\ call'.op \in {"save_and_next", "go_next"}
                   /\ numbered_processor.current_numbered_idx
                          = Len(numbered_processor.numbered_lines) - 1]_vars

\* Previous has led back to the first of several qualifying lines, one of them edited
C40_Witness ==
    /\ NumberedActive(window, numbered_processor)
    /\ call.op = "go_previous"
    /\ numbered_processor.current_numbered_idx = 0
    /\ Len(numbered_processor.numbered_lines) >= 2
    /\ numbered_processor.numbered_edits # {}
====
